---- MODULE Spec2Model ----
(***************************************************************************)
(* Staged document pipeline of blood-agent: ingest/extract -> anonymize -> *)
(* structure (text to JSON) -> LOINC validation, with the SQLite document  *)
(* record and the MinIO object store as shared state.                      *)
(*                                                                         *)
(* Granularity: one action per external call of a handler (metadata read,  *)
(* object read, model-backend call, object write, each record UPDATE),     *)
(* sequenced by a program counter per worker.  Each UPDATE of sqlite_db.py *)
(* commits on its own, so the states between two UPDATEs of one handler    *)
(* are states of the record that other readers (GET /results) can see.     *)
(*                                                                         *)
(* Environment: the model backend and the object store may fail on any     *)
(* call; a get_object of a missing key always fails.  Under Spec the       *)
(* SQLite file is reliable.  Under SpecDbFaults an INSERT or UPDATE of the *)
(* record may fail as well (sqlite3.OperationalError: the file is shared   *)
(* by every process of the pipeline and of the API); the UPDATE of an      *)
(* except block, set_error, is still taken to succeed: a record store that *)
(* is down while a failure is being recorded is a second fault.            *)
(***************************************************************************)
EXTENDS Integers, Sequences, FiniteSets, TLC

\* ------------------------------------------------------------- bounds
MaxDocs == 1       \* documents the pipeline is run on, one after the other
MaxIngests == 2    \* clock readings (document ids) of ingestions that overlap
MaxFiles == 2      \* files in the list a driver is handed
MaxPages == 1      \* pages of an ingested file (1..MaxPages)

\* -------------------------------------------------- program constants
max_retries == 3   \* default of anonymize_text_with_llm / text_to_json_with_llm

NULL == "NULL"                       \* None, for a string-valued field
NoDoc == -1                          \* None, for a doc_id
NoKey == <<-1, "none">>              \* None, for an object key
NoError == <<>>                      \* None, for the error column
NoObject == [by |-> "none", text |-> [kind |-> "none"]]
NoExc == [cls |-> "none", msg |-> "none"]
NoValue == [kind |-> "none"]

Workers == {1, 2}
SeqWorkers == {1}          \* the sequential drivers (demo, batch, API loop)

UnknownId == 0             \* a doc_id handed in by the caller that no ingestion minted
DocIds == 1..MaxIngests
AllIds == 0..MaxIngests

Stages == {"extraction", "anonymization", "structuring", "enrichment"}

\* ------------------------------------------------------------ statuses
Statuses == {"uploaded", "processed", "anonymized", "json_serialized",
             "loinc_validated", "error"}

StatusRank(s) ==
    CASE s = "uploaded" -> 0
      [] s = "processed" -> 1
      [] s = "anonymized" -> 2
      [] s = "json_serialized" -> 3
      [] s = "loinc_validated" -> 4
      [] OTHER -> -1

\* ---------------------------------------------------------- exceptions
BackendError == [cls |-> "BackendError", msg |-> "backend call failed"]
StorageError == [cls |-> "S3Error", msg |-> "object store call failed"]
IntegrityError == [cls |-> "IntegrityError", msg |-> "UNIQUE constraint failed"]
DbError == [cls |-> "OperationalError", msg |-> "database is locked"]
ExtractError == [cls |-> "Exception", msg |-> "extraction failed"]
ValueErrorOf(m) == [cls |-> "ValueError", msg |-> m]
ExceptionOf(m) == [cls |-> "Exception", msg |-> m]
AttributeError == [cls |-> "AttributeError", msg |-> "'dict' object has no attribute 'encode'"]

\* ------------------------------------------------------- object store
Buckets == {"bronze", "silver"}
Kinds == {"orig", "txt", "anon", "json"}

\* storage/minio_storage.py key layout: documents/{doc_id}/{...}
original_key(d) == <<d, "orig">>
text_key_of(d) == <<d, "txt">>
anon_key_of(d) == <<d, "anon">>
json_key_of(d) == <<d, "json">>

Keys == AllIds \X Kinds

VARIABLES
    rec,        \* rec[d]: the row of table record with id d
    store,      \* store[b][k]: content of object k of bucket b, or NoObject
    nextId,     \* the next doc_id datetime.now() yields
    pc,         \* pc[w]: where worker w is
    deps,       \* deps[w]: AgentDependencies of the run of w (doc_id)
    driver,     \* driver[w]: "agent" (demo.py / batch_process.py) or "api"
    frame,      \* frame[w]: locals of the handler w is in
    exc,        \* exc[w]: the exception in flight, or NoExc
    result,     \* result[w]: what the caller of the last run of w got
    snap,       \* snap[w]: rec and store when the current handler was entered
    completed,  \* completed[d]: stages that returned normally for d at least once
    files,      \* files[w]: the list of files a driver loop of w is going through
    model_config \* the environment, the global _model_config, each agent's config

vars == <<rec, store, nextId, pc, deps, driver, frame, exc,
          result, snap, completed, files, model_config>>

\* no list: a single run (demo.py)
NoFiles == [by |-> "none", left |-> 0]

\* the file a caller hands to the pipeline: every caller has its own file,
\* the same bytes each time it runs (demo.py:17, batch_process.py:178)
filepath(w) == w
NoFile == 0

NoRecord == [exists |-> FALSE, bucket |-> NULL, original_key |-> NoKey,
             text_key |-> NoKey, status |-> NULL, error |-> NoError,
             anonymized_txt |-> NoKey, lab_items |-> NoKey,
             filename |-> NoFile, content_hash |-> NULL]

\* ingest.py:57, the local `out` before it is stored: whether the file had a
\* text layer of at least 10 characters, the text segments returned and the
\* model-backend and OCR calls the extraction made
NoExtraction == [layer |-> FALSE, text |-> <<>>, llm |-> 0, ocr |-> 0, log |-> <<>>]

\* -------------------------------------------------- src/model_config.py
\* class ModelProvider(Enum)
ModelProvider == {"openai", "anthropic", "ollama"}

\* provider=None: the argument is not given
NoProvider == "none"
\* no ModelConfig object
NoConfig == [provider |-> NoProvider, base_url |-> FALSE]

\* MODEL_PROVIDER (lower case, "openai" when unset) and whether
\* MODEL_BASE_URL is set
Environments ==
    [provider : ModelProvider \cup {"unsupported"}, base_url : BOOLEAN]
DefaultEnviron == [provider |-> "openai", base_url |-> FALSE]

ValueErrorUnsupported == [cls |-> "ValueError", msg |-> "Unsupported provider"]

\* ModelConfig.__init__: an argument that is not given is read from the
\* environment; only the provider is validated
ModelConfig(provider, base_url, environ) ==
    LET p == IF provider # NoProvider THEN provider ELSE environ.provider
        b == base_url \/ environ.base_url
    IN  IF p \in ModelProvider
        THEN [raised |-> FALSE, exc |-> NoExc,
              value |-> [provider |-> p, base_url |-> b]]
        ELSE [raised |-> TRUE, exc |-> ValueErrorUnsupported, value |-> NoConfig]

\* the configurations that can be constructed
ModelConfigs == [provider : ModelProvider, base_url : BOOLEAN]

\* get_model_config: the global instance, created from the environment if
\* there is none; value is what the caller gets, state the module state after
get_model_config(mc) ==
    IF mc.global # NoConfig
    THEN [value |-> mc.global, state |-> mc]
    ELSE LET c == ModelConfig(NoProvider, FALSE, mc.environ)
         IN  [value |-> c.value, state |-> [mc EXCEPT !.global = c.value]]

\* create_blood_agent(model_config): worker w gets an agent made with c
create_blood_agent(mc, w, c) == [mc EXCEPT !.agent[w] = c]

\* Agent(model="ollama:<name>") is given the model string only, not base_url:
\* whether the library can build the provider depends on its own settings
UserError == [cls |-> "UserError", msg |-> "provider not configured"]
AgentOutcomes(c) ==
    IF c.provider = "ollama" THEN {"created", "raised"} ELSE {"created"}

\* the ..._with_llm call a handler has just made, until its next statement:
\* what the backend answered on each attempt, and what the retry loop did
NoCall == [outs |-> <<>>,
           res |-> [raised |-> FALSE, exc |-> NoExc, value |-> NoValue, calls |-> 0,
                    prompts |-> <<>>, from |-> 0]]

NoFrame == [doc |-> NoDoc, key |-> NoKey, out |-> NoValue, tool |-> NULL,
            ext |-> NoExtraction, call |-> NoCall, model_config |-> NoConfig]

\* -------------------------------------------------- db/sqlite_db.py
\* the INSERT names no content_hash column: it stays NULL
insert_record(r, id, bucket, okey, filename) ==
    [r EXCEPT ![id] = [exists |-> TRUE, bucket |-> bucket, original_key |-> okey,
                       text_key |-> NoKey, status |-> "uploaded", error |-> NoError,
                       anonymized_txt |-> NoKey, lab_items |-> NoKey,
                       filename |-> filename, content_hash |-> NULL]]

\* UPDATE ... WHERE id = ?: no row, no change
set_text_pointer(r, id, key) ==
    IF r[id].exists
    THEN [r EXCEPT ![id].text_key = key, ![id].status = "processed"]
    ELSE r

\* a variant that stores the message and leaves status alone
set_error_message_only(r, id, message) ==
    IF r[id].exists THEN [r EXCEPT ![id].error = message] ELSE r

\* message[:n]
Slice(message, n) == SubSeq(message, 1, IF Len(message) < n THEN Len(message) ELSE n)

ErrorLimit == 500

\* a variant that stores the whole message
set_error_whole_message(r, id, message) ==
    IF r[id].exists
    THEN [r EXCEPT ![id].status = "error", ![id].error = message]
    ELSE r

\* a message is the sequence of its characters; the pipeline's own messages
\* are written as their fragments, each standing for a short text
set_error(r, id, message) ==
    IF r[id].exists
    THEN [r EXCEPT ![id].status = "error", ![id].error = Slice(message, ErrorLimit)]
    ELSE r

get_record(r, id) == IF r[id].exists THEN r[id] ELSE NoRecord

\* variant: the pointer UPDATE that also advances the status, the way
\* set_text_pointer does
set_anonymized_txt_and_status(r, id, key) ==
    IF r[id].exists
    THEN [r EXCEPT ![id].anonymized_txt = key, ![id].status = "anonymized"]
    ELSE r

set_anonymized_txt(r, id, key) ==
    IF r[id].exists THEN [r EXCEPT ![id].anonymized_txt = key] ELSE r

set_json(r, id, key) ==
    IF r[id].exists THEN [r EXCEPT ![id].lab_items = key] ELSE r

set_status(r, id, status) ==
    IF r[id].exists THEN [r EXCEPT ![id].status = status] ELSE r

set_bucket(r, id, bucket) ==
    IF r[id].exists THEN [r EXCEPT ![id].bucket = bucket] ELSE r

\* ------------------------------------------- storage/minio_storage.py
\* An object is the bytes written and the stage that wrote them; the validity
\* classifier's verdict on a text is not part of its bytes.
put_object(s, bucket, key, content) == [s EXCEPT ![bucket][key] = content]

Bytes(text) == [kind |-> text.kind]

put_original(s, bucket, filepath_, d) ==
    put_object(s, bucket, original_key(d),
               [by |-> "upload", text |-> [kind |-> "original", file |-> filepath_]])

\* a variant that has not written the object when it returns the key
put_text_deferred(s, bucket, d, text) == s

put_text(s, bucket, d, text) ==
    put_object(s, bucket, text_key_of(d), [by |-> "extraction", text |-> Bytes(text)])
put_anon_text(s, bucket, d, text) ==
    put_object(s, bucket, anon_key_of(d), [by |-> "anonymization", text |-> Bytes(text)])
\* a variant that leaves an object already stored under the key in place
put_json_if_absent(s, bucket, d, obj, by) ==
    IF s[bucket][json_key_of(d)] # NoObject
    THEN s
    ELSE put_object(s, bucket, json_key_of(d), [by |-> by, text |-> Bytes(obj)])

put_json(s, bucket, d, obj, by) ==
    put_object(s, bucket, json_key_of(d), [by |-> by, text |-> Bytes(obj)])

HasObject(s, bucket, key) == key \in Keys /\ s[bucket][key] # NoObject

\* ------------------------------------------------------------------
\* Model-backend retry loops.  The backend's answers are the input: outs[k]
\* is what attempt k (1-based) of the loop gets.
\*   "raise"      the client call raises
\*   "json_error" the client call raises json.JSONDecodeError
\*   "valid"      a response the validity classifier accepts
\*   "invalid"    a response the validity classifier rejects
LlmOutcomes == {"raise", "valid", "invalid"}
AnonOutcomes == LlmOutcomes \cup {"json_error"}

Min(a, b) == IF a < b THEN a ELSE b

NumPrompts == 3    \* len(system_prompts) = len(user_prompts) = len(prompts)

\* prompts[min(attempt, len(prompts) - 1)], attempt 0-based; variants 1-based here
PromptVariant(attempt) == Min(attempt, NumPrompts - 1) + 1

\* from: the attempt whose response the returned value was taken from
Returned(value, n, used, from) ==
    [raised |-> FALSE, exc |-> NoExc, value |-> value, calls |-> n, prompts |-> used,
     from |-> from]
Raised(e, n, used) ==
    [raised |-> TRUE, exc |-> e, value |-> NoValue, calls |-> n, prompts |-> used,
     from |-> 0]

\* src/tools/anonymize.py: anonymize_text_with_llm, the for loop.
\* had: the last attempt that bound the local `response` (0: none yet).
RECURSIVE anonymize_loop(_, _, _, _, _)
anonymize_loop(outs, attempt, retries, had, used) ==
    IF attempt >= retries
    THEN Raised(ExceptionOf("Anonymization failed after attempts"), attempt, used)
    ELSE LET o == outs[attempt + 1]
             u == Append(used, PromptVariant(attempt))
             last == ~(attempt < retries - 1)
         IN CASE o = "valid" ->
                   Returned([kind |-> "text", valid |-> TRUE], attempt + 1, u, attempt + 1)
              [] o = "invalid" ->
                   IF ~last
                   THEN anonymize_loop(outs, attempt + 1, retries, attempt + 1, u)
                   ELSE Returned([kind |-> "text", valid |-> FALSE], attempt + 1, u,
                                 attempt + 1)
              [] o = "json_error" ->
                   IF ~last
                   THEN anonymize_loop(outs, attempt + 1, retries, had, u)
                   ELSE IF had > 0
                        THEN Returned([kind |-> "dict", valid |-> FALSE], attempt + 1, u, had)
                        ELSE Raised(ExceptionOf("JSON decode error"), attempt + 1, u)
              [] OTHER ->
                   IF ~last
                   THEN anonymize_loop(outs, attempt + 1, retries, had, u)
                   ELSE Raised(ExceptionOf("Error processing with LLM after attempts"),
                               attempt + 1, u)

\* a variant that gives up when the last response is rejected
anonymize_text_with_llm_strict(outs, retries) ==
    LET r == anonymize_loop(outs, 0, retries, 0, <<>>)
    IN IF ~r.raised /\ ~r.value.valid
       THEN Raised(ExceptionOf("Anonymization failed after attempts"), r.calls, r.prompts)
       ELSE r

anonymize_text_with_llm(outs, retries) == anonymize_loop(outs, 0, retries, 0, <<>>)

\* src/tools/txt_to_json.py: text_to_json_with_llm, the for loop.
RECURSIVE text_to_json_loop(_, _, _, _)
text_to_json_loop(outs, attempt, retries, used) ==
    IF attempt >= retries
    THEN Raised(ExceptionOf("JSON extraction failed after retries."), attempt, used)
    ELSE LET o == outs[attempt + 1]
             u == Append(used, PromptVariant(attempt))
             last == ~(attempt < retries - 1)
         IN CASE o = "valid" ->
                   Returned([kind |-> "tests", valid |-> TRUE], attempt + 1, u, attempt + 1)
              [] o = "invalid" ->
                   IF ~last
                   THEN text_to_json_loop(outs, attempt + 1, retries, u)
                   ELSE Returned([kind |-> "tests", valid |-> FALSE], attempt + 1, u,
                                 attempt + 1)
              [] OTHER ->
                   IF ~last
                   THEN text_to_json_loop(outs, attempt + 1, retries, u)
                   ELSE Raised(ExceptionOf("Error converting text to JSON after attempts"),
                               attempt + 1, u)

\* a variant that makes every attempt before it returns the first accepted one
text_to_json_with_llm_exhaustive(outs, retries) ==
    LET r == text_to_json_loop(outs, 0, retries, <<>>)
    IN [r EXCEPT !.calls = retries,
                 !.prompts = [k \in 1..retries |-> PromptVariant(k - 1)]]

\* a variant that gives up when the last parsed result is rejected
text_to_json_with_llm_strict(outs, retries) ==
    LET r == text_to_json_loop(outs, 0, retries, <<>>)
    IN IF ~r.raised /\ ~r.value.valid
       THEN Raised(ExceptionOf("JSON extraction failed after retries."), r.calls, r.prompts)
       ELSE r

text_to_json_with_llm(outs, retries) == text_to_json_loop(outs, 0, retries, <<>>)

\* a variant that calls the backend a second time when the first call raised
validate_loinc_codes_with_llm_retrying(o) ==
    IF o = "raise"
    THEN Raised(BackendError, 2, <<1, 1>>)
    ELSE Returned([kind |-> "tests", valid |-> (o = "valid")], 1, <<1>>, 1)

\* src/tools/loinc_validation.py: validate_loinc_codes_with_llm: one call, no
\* retry, no validity gate; the client's exception leaves unchanged.
validate_loinc_codes_with_llm(o) ==
    IF o = "raise"
    THEN Raised(BackendError, 1, <<1>>)
    ELSE Returned([kind |-> "tests", valid |-> (o = "valid")], 1, <<1>>, 1)

AttemptSeqs(S) == [1..max_retries -> S]

\* ------------------------------------------------------------------
\* Extraction (src/tools/extract_text.py).  A page is what the environment
\* does for it: encode (np.array / cv2 conversion succeeds), llm (the
\* answers of the attempts), ocr ("text", "empty" or "raise").
OcrOutcomes == {"text", "empty", "raise"}

EmptyText == [src |-> "empty"]       \* the empty string

PageScenarios == [encode : BOOLEAN, llm : AttemptSeqs(LlmOutcomes), ocr : OcrOutcomes]

\* _extract_text_from_image_llm: the for loop over
\* range(min(max_retries, len(prompts))); "" when no attempt was accepted.
RECURSIVE extract_llm_loop(_, _, _, _)
extract_llm_loop(outs, attempt, retries, used) ==
    IF attempt >= Min(retries, NumPrompts)
    THEN Returned(EmptyText, attempt, used, 0)
    ELSE LET o == outs[attempt + 1]
             u == Append(used, attempt + 1)
         IN IF o = "valid"
            THEN Returned([src |-> "llm", attempt |-> attempt + 1], attempt + 1, u,
                          attempt + 1)
            ELSE extract_llm_loop(outs, attempt + 1, retries, u)

\* _extract_text_from_image_llm, whole: the image conversion is outside the try
extract_text_from_image_llm(page, retries) ==
    IF ~page.encode
    THEN Raised(ExceptionOf("cv2.error"), 0, <<>>)
    ELSE extract_llm_loop(page.llm, 0, retries, <<>>)

\* _extract_text_from_image_ocr: never raises, an error string instead
extract_text_from_image_ocr(page) ==
    CASE page.ocr = "text" -> [src |-> "ocr"]
      [] page.ocr = "empty" -> EmptyText
      [] OTHER -> [src |-> "ocr_error"]

\* OCR was not called for the page
NoOcr == [src |-> "none"]

\* a variant that runs OCR on every page, whatever the model returned
extract_page_ocr_always(page, i) ==
    LET m == extract_text_from_image_llm(page, max_retries)
        t == extract_text_from_image_ocr(page)
    IN IF m.raised
       THEN [raised |-> TRUE, exc |-> m.exc, seg |-> EmptyText, llm |-> 0, ocr |-> 0,
             outs |-> <<>>, prompts |-> <<>>, ocr_out |-> NoOcr]
       ELSE [raised |-> FALSE, exc |-> NoExc,
             seg |-> IF m.value # EmptyText THEN m.value
                     ELSE IF t = EmptyText THEN [src |-> "placeholder", page |-> i] ELSE t,
             llm |-> m.calls, ocr |-> 1,
             outs |-> SubSeq(page.llm, 1, m.calls), prompts |-> m.prompts,
             ocr_out |-> t]

\* one iteration of the page loop of extract_text_with_llm, page number i.
\* outs: the answers to the model attempts that were made; ocr_out: what
\* _extract_text_from_image_ocr returned
extract_page(page, i) ==
    LET m == extract_text_from_image_llm(page, max_retries)
    IN IF m.raised
       THEN [raised |-> TRUE, exc |-> m.exc, seg |-> EmptyText, llm |-> 0, ocr |-> 0,
             outs |-> <<>>, prompts |-> <<>>, ocr_out |-> NoOcr]
       ELSE IF m.value = EmptyText
            THEN LET t == extract_text_from_image_ocr(page)
                 IN [raised |-> FALSE, exc |-> NoExc,
                     seg |-> IF t = EmptyText THEN [src |-> "placeholder", page |-> i] ELSE t,
                     llm |-> m.calls, ocr |-> 1,
                     outs |-> SubSeq(page.llm, 1, m.calls), prompts |-> m.prompts,
                     ocr_out |-> t]
            ELSE [raised |-> FALSE, exc |-> NoExc, seg |-> m.value,
                  llm |-> m.calls, ocr |-> 0,
                  outs |-> SubSeq(page.llm, 1, m.calls), prompts |-> m.prompts,
                  ocr_out |-> NoOcr]

RECURSIVE extract_pages(_, _, _)
extract_pages(pages, i, acc) ==
    IF i > Len(pages)
    THEN acc
    ELSE LET r == extract_page(pages[i], i)
         IN IF r.raised
            THEN [acc EXCEPT !.raised = TRUE, !.exc = r.exc]
            ELSE extract_pages(pages, i + 1,
                               [acc EXCEPT !.text = Append(@, r.seg),
                                           !.llm = @ + r.llm, !.ocr = @ + r.ocr,
                                           !.log = Append(@, [outs |-> r.outs,
                                                              prompts |-> r.prompts,
                                                              ocr |-> r.ocr,
                                                              ocr_out |-> r.ocr_out])])

\* extract_text_with_llm: file.open is whether pdf_to_images / Image.open
\* succeeds; a non-PDF file is the single image itself.
extract_text_with_llm(file) ==
    IF ~file.open
    THEN [raised |-> TRUE, exc |-> ExtractError, text |-> <<>>, llm |-> 0, ocr |-> 0,
          log |-> <<>>]
    ELSE extract_pages(file.pages, 1,
                       [raised |-> FALSE, exc |-> NoExc, text |-> <<>>, llm |-> 0, ocr |-> 0,
                        log |-> <<>>])

\* the files the pipeline is run on: an image (one page) or a PDF of up to
\* MaxPages pages
PageCounts(pdf) == IF pdf THEN 1..MaxPages ELSE {1}

\* layer: pdfplumber would read at least 10 characters of embedded text from
\* the file (_pdf_text_fast); only a PDF can have one
TextLayers(pdf) == IF pdf THEN BOOLEAN ELSE {FALSE}

PipelineFiles ==
    UNION {UNION {[pdf : {isPdf}, layer : TextLayers(isPdf), open : BOOLEAN,
                   pages : [1..n -> PageScenarios]]
                      : n \in PageCounts(isPdf)}
               : isPdf \in BOOLEAN}

\* what extract_text_with_llm does on them
ExtractResults == {extract_text_with_llm(f) : f \in PipelineFiles}

\* out = extract_text_with_llm(ExtractTextInput(filepath=filepath, ...)): the
\* result, with whether the file had a text layer
Extractions ==
    {[layer |-> f.layer, res |-> extract_text_with_llm(f)] : f \in PipelineFiles}

\* ------------------------------------------------------------------
\* State machine
NoSnap == [rec |-> [d \in AllIds |-> NoRecord],
           store |-> [b \in Buckets |-> [k \in Keys |-> NoObject]]]

\* the pointer entries of the dict run_agent_with_file returns
NoPointers == [text_key |-> NoKey, anonymized_key |-> NoKey, json_key |-> NoKey,
               loinc_key |-> NoKey]

NoResult == [kind |-> "none", exc |-> NoExc, payload |-> FALSE, keys |-> NoPointers]

\* Python's getattr(obj, name, default) on the dependencies object
getattr(obj, name, default) == IF name \in DOMAIN obj THEN obj[name] ELSE default

\* agent_connector.py:49-56: the pointers are read off deps
ReturnedPointers(dep) ==
    [text_key |-> getattr(dep, "text_key", NoKey),
     anonymized_key |-> getattr(dep, "anonymized_key", NoKey),
     json_key |-> getattr(dep, "json_key", NoKey),
     loinc_key |-> getattr(dep, "loinc_key", NoKey)]

\* what the caller holds: r, with the returned dict's pointers when the API
\* entry point returned one
Respond(r, drv, dep) ==
    [kind |-> r.kind, exc |-> r.exc, payload |-> r.payload,
     keys |-> IF drv = "api" /\ r.kind = "returned"
              THEN ReturnedPointers(dep) ELSE NoPointers]

\* the module state once src.agent is imported under a supported provider:
\* blood_agent = create_blood_agent() has made the global configuration, and
\* every driver starts with an agent made with it
Imported(environ) ==
    LET c == ModelConfig(NoProvider, FALSE, environ).value
    IN  [environ |-> environ, global |-> c, agent |-> [w \in Workers |-> c]]

Init ==
    /\ rec = [d \in AllIds |-> NoRecord]
    /\ store = [b \in Buckets |-> [k \in Keys |-> NoObject]]
    /\ nextId = 1
    /\ pc = [w \in Workers |-> "idle"]
    /\ deps = [w \in Workers |-> [doc_id |-> NoDoc]]
    /\ driver = [w \in Workers |-> "agent"]
    /\ frame = [w \in Workers |-> NoFrame]
    /\ exc = [w \in Workers |-> NoExc]
    /\ result = [w \in Workers |-> NoResult]
    /\ snap = [w \in Workers |-> NoSnap]
    /\ completed = [d \in AllIds |-> {}]
    /\ files = [w \in Workers |-> NoFiles]
    /\ model_config = Imported(DefaultEnviron)

Goto(w, p) == pc' = [pc EXCEPT ![w] = p]

\* an exception leaves the handler: it is in flight at pc = "raised"
Throw(w, e) ==
    /\ pc' = [pc EXCEPT ![w] = "raised"]
    /\ exc' = [exc EXCEPT ![w] = e]

\* a tool is entered: the state at entry is remembered
Enter(w, tool, d) ==
    /\ frame' = [frame EXCEPT ![w] = [NoFrame EXCEPT !.doc = d, !.tool = tool]]
    /\ snap' = [snap EXCEPT ![w] = [rec |-> rec, store |-> store]]

\* model_config = get_model_config(), then the handler is called with it
EnterWithConfig(w, tool, d) ==
    /\ frame' = [frame EXCEPT ![w] =
                    [NoFrame EXCEPT !.doc = d, !.tool = tool,
                                    !.model_config = get_model_config(model_config).value]]
    /\ snap' = [snap EXCEPT ![w] = [rec |-> rec, store |-> store]]
    /\ model_config' = get_model_config(model_config).state

\* a handler returns normally to the agent
Return(w, stage) ==
    /\ pc' = [pc EXCEPT ![w] = "agent"]
    /\ completed' = [completed EXCEPT ![frame[w].doc] = @ \cup {stage}]
    /\ frame' = [frame EXCEPT ![w] = NoFrame]
    /\ snap' = [snap EXCEPT ![w] = NoSnap]

\* the ids a caller can put into AgentDependencies.doc_id (demo.py:21)
KnownIds == {d \in DocIds : rec[d].exists}

\* ---- drivers
\* demo.py / batch_process.py: blood_agent.run_sync(prompt, deps=deps)
call_run_sync(w, ids) ==
    /\ pc[w] = "idle"
    /\ \E d \in ids :
         deps' = [deps EXCEPT ![w] = [doc_id |-> d]]
    /\ driver' = [driver EXCEPT ![w] = "agent"]
    /\ result' = [result EXCEPT ![w] = NoResult]
    /\ Goto(w, "agent")
    /\ UNCHANGED <<rec, store, nextId, frame, exc, snap, completed, model_config>>

run_sync(w) == call_run_sync(w, {NoDoc, UnknownId} \cup KnownIds) /\ UNCHANGED files

\* blood-agent-api/app/agent_connector.py: run_agent_with_file, up to the
\* direct call of ingest_then_extract (lines 25-37)
call_ingest_then_extract(w) ==
    /\ pc[w] = "idle"
    /\ deps' = [deps EXCEPT ![w] = [doc_id |-> NoDoc]]
    /\ driver' = [driver EXCEPT ![w] = "api"]
    /\ result' = [result EXCEPT ![w] = NoResult]
    \* ingest.py:32-33: model_config is None, so get_model_config()
    /\ frame' = [frame EXCEPT ![w] =
                    [NoFrame EXCEPT !.tool = "direct",
                                    !.model_config = get_model_config(model_config).value]]
    /\ snap' = [snap EXCEPT ![w] = [rec |-> rec, store |-> store]]
    /\ model_config' = get_model_config(model_config).state
    /\ Goto(w, "ingest_put_original")
    /\ UNCHANGED <<rec, store, nextId, exc, completed>>

run_agent_with_file(w) ==
    nextId <= MaxDocs /\ call_ingest_then_extract(w) /\ UNCHANGED files

\* blood-agent-api/app/routes.py: run_agent_endpoint, one request among
\* several that the server processes are handling at the same time
run_agent_endpoint(w) ==
    nextId <= MaxIngests /\ call_ingest_then_extract(w) /\ UNCHANGED files

\* the agent ends the run without an exception
agent_finish(w) ==
    /\ pc[w] = "agent"
    /\ result' = [result EXCEPT ![w] =
                      Respond([kind |-> "returned", exc |-> NoExc, payload |-> FALSE],
                              driver[w], deps[w])]
    /\ deps' = [deps EXCEPT ![w] = [doc_id |-> NoDoc]]
    /\ driver' = [driver EXCEPT ![w] = "agent"]
    /\ Goto(w, "idle")
    /\ UNCHANGED <<rec, store, nextId, frame, exc, snap, completed, files, model_config>>

\* What the caller of the entry point gets for an exception e raised in tool.
\* agent.run lets a tool's exception through; run_agent_with_file catches what
\* agent.run raises and returns it as output = "[agent error] {e}"
\* (agent_connector.py:43-47); an exception of its own ingest_then_extract
\* call is not caught.  run_sync raises to its caller.
\* variant: an entry point that swallows the exception of a tool
CallerResultSwallowed(drv, tool, e) ==
    [kind |-> "returned", exc |-> NoExc, payload |-> FALSE]

CallerResult(drv, tool, e) ==
    IF drv = "api" /\ tool # "direct"
    THEN [kind |-> "returned", exc |-> e, payload |-> TRUE]
    ELSE [kind |-> "raised", exc |-> e, payload |-> FALSE]

propagate(w) ==
    /\ pc[w] = "raised"
    /\ result' = [result EXCEPT ![w] =
                      Respond(CallerResult(driver[w], frame[w].tool, exc[w]),
                              driver[w], deps[w])]
    /\ exc' = [exc EXCEPT ![w] = NoExc]
    /\ frame' = [frame EXCEPT ![w] = NoFrame]
    /\ snap' = [snap EXCEPT ![w] = NoSnap]
    /\ deps' = [deps EXCEPT ![w] = [doc_id |-> NoDoc]]
    /\ driver' = [driver EXCEPT ![w] = "agent"]
    /\ Goto(w, "idle")
    \* an exception that leaves run_agent_with_file also leaves the for loop of
    \* run_agent_with_files (agent_connector.py:68-70); batch_process.py
    \* catches it per file
    /\ files' = [files EXCEPT ![w] =
                    IF files[w].by = "api" /\ frame[w].tool = "direct"
                    THEN NoFiles ELSE @]
    /\ UNCHANGED <<rec, store, nextId, completed, model_config>>

\* ---- src/agent.py: the tools
\* ingest_and_extract: skipped when deps.doc_id is set
ingest_and_extract(w) ==
    /\ pc[w] = "agent"
    /\ IF deps[w].doc_id # NoDoc
       THEN UNCHANGED <<pc, frame, snap, model_config>>
       ELSE /\ nextId <= IF files[w] = NoFiles THEN MaxDocs ELSE MaxIngests
            /\ EnterWithConfig(w, "ingest_and_extract", NoDoc)
            /\ Goto(w, "ingest_put_original")
    /\ UNCHANGED <<rec, store, nextId, deps, driver, files, exc, result, completed>>

\* anonymize_txt / text_to_json / json_to_loinc: raise without a doc_id
ToolWithDocId(w, tool, first, missing) ==
    /\ pc[w] = "agent"
    /\ IF deps[w].doc_id = NoDoc
       THEN /\ Enter(w, tool, deps[w].doc_id)
            /\ Throw(w, ValueErrorOf(missing))
            /\ UNCHANGED model_config
       ELSE /\ EnterWithConfig(w, tool, deps[w].doc_id)
            /\ Goto(w, first)
            /\ UNCHANGED exc
    /\ UNCHANGED <<rec, store, nextId, deps, driver, files, result, completed>>

anonymize_txt(w) ==
    ToolWithDocId(w, "anonymize_txt", "anonymize_get_record",
                  "ingest_and_extract must run first; no doc_id present.")
text_to_json(w) ==
    ToolWithDocId(w, "text_to_json", "parse_get_record",
                  "ingest_and_extract must run first; no doc_id present.")
json_to_loinc(w) ==
    ToolWithDocId(w, "json_to_loinc", "loinc_get_record",
                  "text_to_json must run first; no doc_id present.")

\* ---- src/tools/ingest.py: ingest_then_extract
\* doc_id = str(datetime.datetime.now()); put_original (outside the try)
ingest_put_original(w) ==
    /\ pc[w] = "ingest_put_original"
    /\ nextId <= MaxIngests
    /\ nextId' = nextId + 1
    /\ frame' = [frame EXCEPT ![w].doc = nextId]
    /\ \/ /\ store' = put_original(store, "bronze", filepath(w), nextId)
          /\ Goto(w, "ingest_insert_record")
          /\ UNCHANGED exc
       \/ /\ Throw(w, StorageError)
          /\ UNCHANGED store
    /\ UNCHANGED <<rec, deps, driver, files, model_config, result, snap, completed>>

\* insert_record (outside the try)
ingest_insert_record(w) ==
    /\ pc[w] = "ingest_insert_record"
    /\ IF rec[frame[w].doc].exists
       THEN /\ Throw(w, IntegrityError)       \* id TEXT PRIMARY KEY
            /\ UNCHANGED rec
       ELSE /\ rec' = insert_record(rec, frame[w].doc, "bronze",
                                    original_key(frame[w].doc), filepath(w))
            /\ Goto(w, "ingest_extract")
            /\ UNCHANGED exc
    /\ UNCHANGED <<store, nextId, deps, driver, files, model_config, frame, result, snap, completed>>

\* out = extract_text_with_llm(...), inside the try
ingest_extract(w) ==
    /\ pc[w] = "ingest_extract"
    /\ \E e \in Extractions :
         LET r == e.res
         IN IF r.raised
            THEN /\ exc' = [exc EXCEPT ![w] = r.exc]
                 /\ Goto(w, "ingest_except")
                 /\ UNCHANGED frame
            ELSE /\ frame' = [frame EXCEPT
                                ![w].out = [kind |-> "text", valid |-> TRUE],
                                ![w].ext = [layer |-> e.layer, text |-> r.text,
                                            llm |-> r.llm, ocr |-> r.ocr,
                                            log |-> r.log]]
                 /\ Goto(w, "ingest_put_text")
                 /\ UNCHANGED exc
    /\ UNCHANGED <<rec, store, nextId, deps, driver, files, model_config, result, snap, completed>>

ingest_put_text(w) ==
    /\ pc[w] = "ingest_put_text"
    /\ \/ /\ store' = put_text(store, "bronze", frame[w].doc, frame[w].out)
          /\ frame' = [frame EXCEPT ![w].key = text_key_of(frame[w].doc),
                                    ![w].ext = NoExtraction]
          /\ Goto(w, "ingest_set_text_pointer")
          /\ UNCHANGED exc
       \/ /\ exc' = [exc EXCEPT ![w] = StorageError]
          /\ frame' = [frame EXCEPT ![w].ext = NoExtraction]
          /\ Goto(w, "ingest_except")
          /\ UNCHANGED store
    /\ UNCHANGED <<rec, nextId, deps, driver, files, model_config, result, snap, completed>>

\* set_text_pointer; return doc_id (the tool and the API both store it in deps)
ingest_set_text_pointer(w) ==
    /\ pc[w] = "ingest_set_text_pointer"
    /\ rec' = set_text_pointer(rec, frame[w].doc, frame[w].key)
    /\ deps' = [deps EXCEPT ![w].doc_id = frame[w].doc]
    /\ IF frame[w].tool # "direct"
       THEN /\ Return(w, "extraction")
            /\ UNCHANGED <<model_config, exc>>
       \* agent_connector.py:38-41: deps.doc_id = doc_id;
       \* model_config = get_model_config(); create_blood_agent(model_config)
       ELSE LET got == get_model_config(model_config)
            IN  \E o \in AgentOutcomes(got.value) :
                    IF o = "created"
                    THEN /\ Return(w, "extraction")
                         /\ model_config' = create_blood_agent(got.state, w, got.value)
                         /\ UNCHANGED exc
                    ELSE /\ Throw(w, UserError)
                         /\ completed' = [completed EXCEPT ![frame[w].doc] =
                                              @ \cup {"extraction"}]
                         /\ model_config' = got.state
                         /\ UNCHANGED <<frame, snap>>
    /\ UNCHANGED <<store, nextId, driver, files, result>>

\* except Exception as e: set_error(doc_id, str(e)); raise
ingest_except(w) ==
    /\ pc[w] = "ingest_except"
    /\ rec' = set_error(rec, frame[w].doc, <<exc[w].msg>>)
    /\ Goto(w, "raised")
    /\ UNCHANGED <<store, nextId, deps, driver, files, model_config, frame, exc, result, snap, completed>>

\* ---- the shared shape of the three later handlers
\* rec = get_record(doc_id); if not rec: raise; if not rec.get(field): raise
\* the key of the object the handler reads next: anonymize and loinc take it
\* from the record, parse builds f"documents/{doc_id}/anon_{doc_id}.txt"
InputKey(here, d, r) ==
    CASE here = "anonymize_get_record" -> r.text_key
      [] here = "parse_get_record" -> anon_key_of(d)
      [] here = "loinc_get_record" -> r.lab_items

GetRecordStep(w, here, field, missing, next) ==
    /\ pc[w] = here
    /\ LET d == frame[w].doc
           r == get_record(rec, d)
       IN IF ~r.exists
          THEN Throw(w, ValueErrorOf("record not found")) /\ UNCHANGED frame
          ELSE IF r[field] = NoKey
               THEN Throw(w, ValueErrorOf(missing)) /\ UNCHANGED frame
               ELSE /\ frame' = [frame EXCEPT ![w].key = InputKey(here, d, r)]
                    /\ Goto(w, next)
                    /\ UNCHANGED exc
    /\ UNCHANGED <<rec, store, nextId, deps, driver, files, model_config, result, snap, completed>>

\* obj = mc.get_object(bucket, key); obj.read(): outside every try.  A missing
\* object raises (NoSuchKey); an existing one is read unless the call fails.
GetObjectStep(w, here, bucket, next) ==
    /\ pc[w] = here
    /\ \/ /\ HasObject(store, bucket, frame[w].key)
          /\ frame' = [frame EXCEPT ![w].out = store[bucket][frame[w].key].text]
          /\ Goto(w, next)
          /\ UNCHANGED exc
       \/ /\ Throw(w, StorageError)
          /\ UNCHANGED frame
    /\ UNCHANGED <<rec, store, nextId, deps, driver, files, model_config, result, snap, completed>>

\* try: x = ..._with_llm(...)  except Exception as e: -> the except step
LlmStep(w, here, calls, next, handler) ==
    /\ pc[w] = here
    /\ \E c \in calls :
         IF c.res.raised
         THEN /\ exc' = [exc EXCEPT ![w] = c.res.exc]
              /\ frame' = [frame EXCEPT ![w].call = c]
              /\ Goto(w, handler)
         ELSE /\ frame' = [frame EXCEPT ![w].out = c.res.value, ![w].call = c]
              /\ Goto(w, next)
              /\ UNCHANGED exc
    /\ UNCHANGED <<rec, store, nextId, deps, driver, files, model_config, result, snap, completed>>

\* except Exception as e: set_error(doc_id, f"<prefix>: {e}"); raise
ExceptStep(w, here, prefix) ==
    /\ pc[w] = here
    /\ rec' = set_error(rec, frame[w].doc, <<prefix, exc[w].msg>>)
    /\ frame' = [frame EXCEPT ![w].call = NoCall]
    /\ Goto(w, "raised")
    /\ UNCHANGED <<store, nextId, deps, driver, files, model_config, exc, result, snap, completed>>

\* a put_* call, outside every try
PutStep(w, here, stored, key, next) ==
    /\ pc[w] = here
    /\ \/ /\ store' = stored
          /\ frame' = [frame EXCEPT ![w].call = NoCall, ![w].key = key]
          /\ Goto(w, next)
          /\ UNCHANGED exc
       \/ /\ Throw(w, StorageError)
          /\ frame' = [frame EXCEPT ![w].call = NoCall]
          /\ UNCHANGED store
    /\ UNCHANGED <<rec, nextId, deps, driver, files, model_config, result, snap, completed>>

\* one UPDATE of the record, outside every try
DbStep(w, here, updated, next) ==
    /\ pc[w] = here
    /\ rec' = updated
    /\ Goto(w, next)
    /\ UNCHANGED <<store, nextId, deps, driver, files, model_config, frame, exc, result, snap, completed>>

\* the last UPDATE of a handler, and its return
LastDbStep(w, here, updated, stage) ==
    /\ pc[w] = here
    /\ rec' = updated
    /\ Return(w, stage)
    /\ UNCHANGED <<store, nextId, deps, driver, files, model_config, exc, result>>

\* ---- src/tools/anonymize.py: anonymize_and_store_by_doc_id
AnonymizeResults == {anonymize_text_with_llm(o, max_retries) : o \in AttemptSeqs(AnonOutcomes)}

\* anon_text = anonymize_text_with_llm(raw_text, model_config=model_config)
AnonymizeCalls ==
    {[outs |-> o, res |-> anonymize_text_with_llm(o, max_retries)]
         : o \in AttemptSeqs(AnonOutcomes)}

anonymize_get_record(w) ==
    GetRecordStep(w, "anonymize_get_record", "text_key", "record has no txt pointer yet",
                  "anonymize_get_object")

anonymize_get_object(w) ==
    GetObjectStep(w, "anonymize_get_object", "bronze", "anonymize_llm")

anonymize_llm(w) ==
    LlmStep(w, "anonymize_llm", AnonymizeCalls, "anonymize_put", "anonymize_except")

anonymize_except(w) == ExceptStep(w, "anonymize_except", "anonymize failed")

\* put_anon_text(mc, cfg.silver_bucket, doc_id, anon_text): anon_text.encode
\* raises when the loop returned its {"raw_response": ...} dict
anonymize_put(w) ==
    IF frame[w].out.kind = "dict"
    THEN /\ pc[w] = "anonymize_put"
         /\ Throw(w, AttributeError)
         /\ frame' = [frame EXCEPT ![w].call = NoCall]
         /\ UNCHANGED <<rec, store, nextId, deps, driver, files, model_config, result, snap, completed>>
    ELSE PutStep(w, "anonymize_put",
                 put_anon_text(store, "silver", frame[w].doc, frame[w].out),
                 anon_key_of(frame[w].doc), "anonymize_set_anonymized_txt")

anonymize_set_anonymized_txt(w) ==
    DbStep(w, "anonymize_set_anonymized_txt",
           set_anonymized_txt(rec, frame[w].doc, frame[w].key),
           "anonymize_set_status")

anonymize_set_status(w) ==
    LastDbStep(w, "anonymize_set_status",
               set_status(rec, frame[w].doc, "anonymized"), "anonymization")

\* ---- src/tools/txt_to_json.py: parse_to_json
TextToJsonResults == {text_to_json_with_llm(o, max_retries) : o \in AttemptSeqs(LlmOutcomes)}

\* result_json = text_to_json_with_llm(anon_text, model_config=model_config)
TextToJsonCalls ==
    {[outs |-> o, res |-> text_to_json_with_llm(o, max_retries)]
         : o \in AttemptSeqs(LlmOutcomes)}

parse_get_record(w) ==
    GetRecordStep(w, "parse_get_record", "text_key", "record has no txt pointer yet",
                  "parse_get_object")

parse_get_object(w) == GetObjectStep(w, "parse_get_object", "silver", "parse_llm")

parse_llm(w) == LlmStep(w, "parse_llm", TextToJsonCalls, "parse_put_json", "parse_except")

parse_except(w) == ExceptStep(w, "parse_except", "serializing failed")

parse_put_json(w) ==
    PutStep(w, "parse_put_json",
            put_json(store, "silver", frame[w].doc, frame[w].out, "structuring"),
            json_key_of(frame[w].doc), "parse_set_json")

parse_set_json(w) ==
    DbStep(w, "parse_set_json", set_json(rec, frame[w].doc, frame[w].key),
           "parse_set_status")

parse_set_status(w) ==
    DbStep(w, "parse_set_status", set_status(rec, frame[w].doc, "json_serialized"),
           "parse_set_bucket")

parse_set_bucket(w) ==
    LastDbStep(w, "parse_set_bucket", set_bucket(rec, frame[w].doc, "silver"), "structuring")

\* ---- src/tools/loinc_validation.py: validate_and_enrich_loinc_codes
LoincResults == {validate_loinc_codes_with_llm(o) : o \in LlmOutcomes}

\* enriched_data = validate_loinc_codes_with_llm(json_data, ...)
LoincCalls ==
    {[outs |-> <<o>>, res |-> validate_loinc_codes_with_llm(o)] : o \in LlmOutcomes}

loinc_get_record(w) ==
    GetRecordStep(w, "loinc_get_record", "lab_items", "record has no JSON pointer yet",
                  "loinc_get_object")

loinc_get_object(w) == GetObjectStep(w, "loinc_get_object", "silver", "loinc_llm")

loinc_llm(w) == LlmStep(w, "loinc_llm", LoincCalls, "loinc_put_json", "loinc_except")

loinc_except(w) == ExceptStep(w, "loinc_except", "LOINC validation failed")

loinc_put_json(w) ==
    PutStep(w, "loinc_put_json",
            put_json(store, "silver", frame[w].doc, frame[w].out, "enrichment"),
            json_key_of(frame[w].doc), "loinc_set_status")

loinc_set_status(w) ==
    LastDbStep(w, "loinc_set_status",
               set_status(rec, frame[w].doc, "loinc_validated"), "enrichment")

\* ------------------------------------------------------------------
Step(w) ==
    \/ run_sync(w)
    \/ run_agent_with_file(w)
    \/ agent_finish(w)
    \/ propagate(w)
    \/ ingest_and_extract(w)
    \/ anonymize_txt(w)
    \/ text_to_json(w)
    \/ json_to_loinc(w)
    \/ ingest_put_original(w)
    \/ ingest_insert_record(w)
    \/ ingest_extract(w)
    \/ ingest_put_text(w)
    \/ ingest_set_text_pointer(w)
    \/ ingest_except(w)
    \/ anonymize_get_record(w)
    \/ anonymize_get_object(w)
    \/ anonymize_llm(w)
    \/ anonymize_except(w)
    \/ anonymize_put(w)
    \/ anonymize_set_anonymized_txt(w)
    \/ anonymize_set_status(w)
    \/ parse_get_record(w)
    \/ parse_get_object(w)
    \/ parse_llm(w)
    \/ parse_except(w)
    \/ parse_put_json(w)
    \/ parse_set_json(w)
    \/ parse_set_status(w)
    \/ parse_set_bucket(w)
    \/ loinc_get_record(w)
    \/ loinc_get_object(w)
    \/ loinc_llm(w)
    \/ loinc_except(w)
    \/ loinc_put_json(w)
    \/ loinc_set_status(w)

\* one worker: documents and tool calls are processed one after the other
Next == \E w \in SeqWorkers : Step(w)

Spec == Init /\ [][Next]_vars

\* ---- failures of the record store
\* the INSERT and the UPDATEs that are outside every try
UnguardedWrites == {"ingest_insert_record",
                    "anonymize_set_anonymized_txt", "anonymize_set_status",
                    "parse_set_json", "parse_set_status", "parse_set_bucket",
                    "loinc_set_status"}

\* cx.execute raises: nothing is written, the exception leaves the handler
record_write_fails(w) ==
    /\ pc[w] \in UnguardedWrites
    /\ Throw(w, DbError)
    /\ UNCHANGED <<rec, store, nextId, deps, driver, files, model_config, frame, result, snap, completed>>

\* set_text_pointer raises inside the try of ingest_then_extract
set_text_pointer_fails(w) ==
    /\ pc[w] = "ingest_set_text_pointer"
    /\ exc' = [exc EXCEPT ![w] = DbError]
    /\ Goto(w, "ingest_except")
    /\ UNCHANGED <<rec, store, nextId, deps, driver, files, model_config, frame, result, snap, completed>>

NextDbFaults ==
    \E w \in SeqWorkers :
        \/ Step(w)
        \/ record_write_fails(w)
        \/ set_text_pointer_fails(w)

SpecDbFaults == Init /\ [][NextDbFaults]_vars

\* ---- overlapping ingestions
\* the statements of ingest_then_extract after doc_id = str(datetime.now())
IngestPcs == {"ingest_insert_record", "ingest_extract", "ingest_put_text",
              "ingest_set_text_pointer", "ingest_except"}

\* ingest.py:35-38 in a second process whose datetime.now() gave the reading
\* another ingestion, still running, has got: the same doc_id, the same key
ingest_put_original_same_clock(w) ==
    /\ pc[w] = "ingest_put_original"
    /\ \E v \in Workers \ {w} : pc[v] \in IngestPcs /\ frame[v].doc = nextId - 1
    /\ frame' = [frame EXCEPT ![w].doc = nextId - 1]
    /\ \/ /\ store' = put_original(store, "bronze", filepath(w), nextId - 1)
          /\ Goto(w, "ingest_insert_record")
          /\ UNCHANGED exc
       \/ /\ Throw(w, StorageError)
          /\ UNCHANGED store
    /\ UNCHANGED <<rec, nextId, deps, driver, files, model_config, result, snap, completed>>

\* requests that only ingest: the agent calls no further tool
NextIngest ==
    \E w \in Workers :
        \/ run_agent_endpoint(w)
        \/ ingest_put_original(w)
        \/ ingest_put_original_same_clock(w)
        \/ ingest_insert_record(w)
        \/ ingest_extract(w)
        \/ ingest_put_text(w)
        \/ ingest_set_text_pointer(w)
        \/ ingest_except(w)
        \/ propagate(w)
        \/ agent_finish(w)

SpecIngest == Init /\ [][NextIngest]_vars

\* ---- lists of files
\* a driver is handed a list of 1..MaxFiles files
StartList(w, by) ==
    /\ pc[w] = "idle"
    /\ files[w] = NoFiles
    \* batch_process.py:118, 164: get_model_config(), create_blood_agent(model_config);
    \* without an agent the loop is not entered
    /\ LET got == get_model_config(model_config)
       IN  IF by = "batch"
           THEN \E o \in AgentOutcomes(got.value) :
                   IF o = "created"
                   THEN /\ model_config' = create_blood_agent(got.state, w, got.value)
                        /\ \E n \in 1..MaxFiles :
                              files' = [files EXCEPT ![w] = [by |-> by, left |-> n]]
                   ELSE /\ model_config' = got.state
                        /\ UNCHANGED files
           ELSE /\ UNCHANGED model_config
                /\ \E n \in 1..MaxFiles :
                      files' = [files EXCEPT ![w] = [by |-> by, left |-> n]]
    /\ UNCHANGED <<rec, store, nextId, pc, deps, driver, frame, exc, result, snap,
                   completed>>

\* agent_connector.py: run_agent_with_files, entered
run_agent_with_files(w) == StartList(w, "api")

\* batch_process.py: _run_batch_process, the loop entered
batch_process(w) == StartList(w, "batch")

\* for file_bytes, filename in files: res = await run_agent_with_file(...)
api_next_file(w) ==
    /\ files[w].by = "api"
    /\ files[w].left > 0
    /\ nextId <= MaxIngests
    /\ files' = [files EXCEPT ![w].left = @ - 1]
    /\ call_ingest_then_extract(w)

\* for i, filepath in enumerate(files, 1): blood_agent.run_sync(..., deps=deps)
batch_next_file(w) ==
    /\ files[w].by = "batch"
    /\ files[w].left > 0
    /\ files' = [files EXCEPT ![w].left = @ - 1]
    /\ call_run_sync(w, {NoDoc})

\* the loop has gone through the whole list: return results / the summary
list_done(w) ==
    /\ pc[w] = "idle"
    /\ files[w] # NoFiles
    /\ files[w].left = 0
    /\ files' = [files EXCEPT ![w] = NoFiles]
    /\ UNCHANGED <<rec, store, nextId, pc, deps, driver, frame, exc, result, snap,
                   completed, model_config>>

\* one driver going through its list; of the later tools the agent calls
\* anonymize_txt only
NextList ==
    \E w \in SeqWorkers :
        \/ run_agent_with_files(w)
        \/ batch_process(w)
        \/ api_next_file(w)
        \/ batch_next_file(w)
        \/ list_done(w)
        \/ agent_finish(w)
        \/ propagate(w)
        \/ ingest_and_extract(w)
        \/ ingest_put_original(w)
        \/ ingest_insert_record(w)
        \/ ingest_extract(w)
        \/ ingest_put_text(w)
        \/ ingest_set_text_pointer(w)
        \/ ingest_except(w)
        \/ anonymize_txt(w)
        \/ anonymize_get_record(w)
        \/ anonymize_get_object(w)
        \/ anonymize_llm(w)
        \/ anonymize_except(w)
        \/ anonymize_put(w)
        \/ anonymize_set_anonymized_txt(w)
        \/ anonymize_set_status(w)

SpecList == Init /\ [][NextList]_vars

\* ---- the process is started under some environment
\* nothing is imported yet: there is no global configuration and no agent
InitConfig ==
    /\ rec = [d \in AllIds |-> NoRecord]
    /\ store = [b \in Buckets |-> [k \in Keys |-> NoObject]]
    /\ nextId = 1
    /\ pc = [w \in Workers |-> "start"]
    /\ deps = [w \in Workers |-> [doc_id |-> NoDoc]]
    /\ driver = [w \in Workers |-> "agent"]
    /\ frame = [w \in Workers |-> NoFrame]
    /\ exc = [w \in Workers |-> NoExc]
    /\ result = [w \in Workers |-> NoResult]
    /\ snap = [w \in Workers |-> NoSnap]
    /\ completed = [d \in AllIds |-> {}]
    /\ files = [w \in Workers |-> NoFiles]
    /\ \E e \in Environments :
          model_config = [environ |-> e, global |-> NoConfig,
                          agent |-> [w \in Workers |-> NoConfig]]

\* from src.agent import ...: the module body runs
\* blood_agent = create_blood_agent(), which calls get_model_config(); an
\* exception ends the process before the driver's first statement
import_agent(w) ==
    /\ pc[w] = "start"
    /\ LET c == ModelConfig(NoProvider, FALSE, model_config.environ)
       IN  IF c.raised
           THEN /\ pc' = [pc EXCEPT ![w] = "exited"]
                /\ exc' = [exc EXCEPT ![w] = c.exc]
                /\ UNCHANGED model_config
           ELSE \E o \in AgentOutcomes(c.value) :
                   IF o = "created"
                   THEN /\ pc' = [pc EXCEPT ![w] = "idle"]
                        /\ model_config' =
                               create_blood_agent(get_model_config(model_config).state,
                                                  w, c.value)
                        /\ UNCHANGED exc
                   ELSE /\ pc' = [pc EXCEPT ![w] = "exited"]
                        /\ exc' = [exc EXCEPT ![w] = UserError]
                        /\ model_config' = get_model_config(model_config).state
    /\ UNCHANGED <<rec, store, nextId, deps, driver, frame, result, snap, completed,
                   files>>

\* one driver from the start of its process; of the later tools the agent
\* calls anonymize_txt only
NextConfig ==
    \E w \in SeqWorkers :
        \/ import_agent(w)
        \/ run_sync(w)
        \/ run_agent_with_file(w)
        \/ agent_finish(w)
        \/ propagate(w)
        \/ ingest_and_extract(w)
        \/ ingest_put_original(w)
        \/ ingest_insert_record(w)
        \/ ingest_extract(w)
        \/ ingest_put_text(w)
        \/ ingest_set_text_pointer(w)
        \/ ingest_except(w)
        \/ anonymize_txt(w)
        \/ anonymize_get_record(w)
        \/ anonymize_get_object(w)
        \/ anonymize_llm(w)
        \/ anonymize_except(w)
        \/ anonymize_put(w)
        \/ anonymize_set_anonymized_txt(w)
        \/ anonymize_set_status(w)

SpecConfig == InitConfig /\ [][NextConfig]_vars

\* ---- the global configuration is replaced while a driver is at work
\* set_model_config(config): some caller in the process installs config
set_model_config(c) ==
    /\ model_config.global # c
    /\ model_config' = [model_config EXCEPT !.global = c]
    /\ UNCHANGED <<rec, store, nextId, pc, deps, driver, frame, exc, result, snap,
                   completed, files>>

\* reset_model_config(): the global instance is dropped
reset_model_config ==
    /\ model_config.global # NoConfig
    /\ model_config' = [model_config EXCEPT !.global = NoConfig]
    /\ UNCHANGED <<rec, store, nextId, pc, deps, driver, frame, exc, result, snap,
                   completed, files>>

NextReconfig ==
    \/ \E c \in ModelConfigs : set_model_config(c)
    \/ reset_model_config
    \/ \E w \in SeqWorkers :
        \/ run_sync(w)
        \/ run_agent_with_file(w)
        \/ agent_finish(w)
        \/ propagate(w)
        \/ ingest_and_extract(w)
        \/ ingest_put_original(w)
        \/ ingest_insert_record(w)
        \/ ingest_extract(w)
        \/ ingest_put_text(w)
        \/ ingest_set_text_pointer(w)
        \/ ingest_except(w)
        \/ anonymize_txt(w)
        \/ anonymize_get_record(w)
        \/ anonymize_get_object(w)
        \/ anonymize_llm(w)
        \/ anonymize_except(w)
        \/ anonymize_put(w)
        \/ anonymize_set_anonymized_txt(w)
        \/ anonymize_set_status(w)

SpecReconfig == Init /\ [][NextReconfig]_vars

\* ---- the retry loops called with a max_retries of the caller's choice
MaxRetries == 4

\* answers of the backend to N attempts
Attempts(S) == UNION {[1..n -> S] : n \in 1..MaxRetries}

\* a caller passes max_retries = Len(outs) to the function and gets res
CallWithRetries(w, name, outs, res) ==
    /\ pc[w] = "idle"
    /\ frame' = [frame EXCEPT ![w] =
                    [NoFrame EXCEPT !.tool = name, !.call = [outs |-> outs, res |-> res]]]
    /\ Goto(w, "called")
    /\ UNCHANGED <<rec, store, nextId, deps, driver, exc, result, snap, completed,
                   files, model_config>>

\* _extract_text_from_image_llm(image, prompt, max_retries=N)
call_extract_text_from_image_llm(w) ==
    \E outs \in Attempts(LlmOutcomes) :
        CallWithRetries(w, "_extract_text_from_image_llm", outs,
                        extract_text_from_image_llm(
                            [encode |-> TRUE, llm |-> outs, ocr |-> "text"], Len(outs)))

\* anonymize_text_with_llm(text, max_retries=N)
call_anonymize_text_with_llm(w) ==
    \E outs \in Attempts(AnonOutcomes) :
        CallWithRetries(w, "anonymize_text_with_llm", outs,
                        anonymize_text_with_llm(outs, Len(outs)))

\* text_to_json_with_llm(text, max_retries=N)
call_text_to_json_with_llm(w) ==
    \E outs \in Attempts(LlmOutcomes) :
        CallWithRetries(w, "text_to_json_with_llm", outs,
                        text_to_json_with_llm(outs, Len(outs)))

\* the caller has its result
call_returns(w) ==
    /\ pc[w] = "called"
    /\ frame' = [frame EXCEPT ![w] = NoFrame]
    /\ Goto(w, "idle")
    /\ UNCHANGED <<rec, store, nextId, deps, driver, exc, result, snap, completed,
                   files, model_config>>

NextRetries ==
    \E w \in SeqWorkers :
        \/ call_extract_text_from_image_llm(w)
        \/ call_anonymize_text_with_llm(w)
        \/ call_text_to_json_with_llm(w)
        \/ call_returns(w)

SpecRetries == Init /\ [][NextRetries]_vars

\* ---- set_error with messages of every length
MaxMessageLen == 502

\* str(e) of an exception whose message has n characters
MessageOf(n) == [k \in 1..n |-> "c"]

\* a record is there for the handler to fail on
record_inserted(w) ==
    /\ pc[w] = "idle"
    /\ nextId = 1
    /\ rec' = insert_record(rec, nextId, "bronze", original_key(nextId), filepath(w))
    /\ nextId' = nextId + 1
    /\ UNCHANGED <<store, pc, deps, driver, frame, exc, result, snap, completed,
                   files, model_config>>

\* try: ... raises an exception e inside a handler working on document d
handler_raises(w) ==
    /\ pc[w] = "idle"
    /\ \E d \in KnownIds, n \in 0..MaxMessageLen :
          /\ rec[d].status # "error"
          /\ frame' = [frame EXCEPT ![w] = [NoFrame EXCEPT !.doc = d]]
          /\ exc' = [exc EXCEPT ![w] = ExceptionOf(MessageOf(n))]
    /\ Goto(w, "except")
    /\ UNCHANGED <<rec, store, nextId, deps, driver, result, snap, completed,
                   files, model_config>>

\* except Exception as e: set_error(doc_id, str(e)); raise
handler_set_error(w) ==
    /\ pc[w] = "except"
    /\ rec' = set_error(rec, frame[w].doc, exc[w].msg)
    /\ Goto(w, "reraised")
    /\ UNCHANGED <<store, nextId, deps, driver, frame, exc, result, snap, completed,
                   files, model_config>>

NextSetError ==
    \E w \in SeqWorkers :
        \/ record_inserted(w)
        \/ handler_raises(w)
        \/ handler_set_error(w)

SpecSetError == Init /\ [][NextSetError]_vars

\* ---- src/tools/txt_to_json.py: _is_valid_json_result
MaxItems == 2

\* an item of the tests list: the fields it has, and those of them whose
\* value, as a lower-case string, contains one of the refusal patterns
\* ("i can't", "i cannot", "sorry", "unable", "error")
Items ==
    UNION {[has : {h}, refusal : SUBSET h]
               : h \in SUBSET {"parameter", "value", "unit"}}

\* a candidate result: a dict without 'tests', or with a tests list
Candidates ==
    {[has_tests |-> FALSE, tests |-> <<>>]}
        \cup UNION {[has_tests : {TRUE}, tests : [1..n -> Items]] : n \in 0..MaxItems}

is_valid_json_result(result_dict) ==
    IF ~result_dict.has_tests THEN FALSE
    ELSE IF Len(result_dict.tests) = 0 THEN FALSE
    ELSE LET first_test == result_dict.tests[1]
         IN  IF "parameter" \notin first_test.has \/ "value" \notin first_test.has
             THEN FALSE
             ELSE IF "parameter" \in first_test.refusal THEN FALSE
             ELSE TRUE

\* if _is_valid_json_result(result_dict): the classifier is asked
call_is_valid_json_result(w) ==
    /\ pc[w] = "idle"
    /\ \E c \in Candidates :
          frame' = [frame EXCEPT ![w] =
                       [NoFrame EXCEPT !.tool = "_is_valid_json_result",
                                       !.out = [kind |-> "candidate", result |-> c,
                                                valid |-> is_valid_json_result(c)]]]
    /\ Goto(w, "called")
    /\ UNCHANGED <<rec, store, nextId, deps, driver, exc, result, snap, completed,
                   files, model_config>>

NextValidity ==
    \E w \in SeqWorkers :
        \/ call_is_valid_json_result(w)
        \/ call_returns(w)

SpecValidity == Init /\ [][NextValidity]_vars

\* ---- src/tools/loinc_lookup.py: map_to_loinc
Threshold == 80

\* similarity scores of the best match, out of 100
Scores == {0, Threshold - 1, Threshold, Threshold + 1, 100}

NoMatch == [found |-> FALSE, choice |-> NULL, score |-> 0]

\* process.extractOne(obs.parameter, choices, scorer=fuzz.WRatio): the best
\* choice of the table and its score, or None when the table has no choice
ExtractOne == {NoMatch} \cup [found : {TRUE}, choice : {"name1", "name2"}, score : Scores]

\* an observation, together with what extractOne returns for its parameter
LabObservations == [parameter : {"p1", "p2"}, match : ExtractOne]

LabDocs == UNION {[1..n -> LabObservations] : n \in 0..MaxItems}

\* the row of the table whose LONG_COMMON_NAME is the matched choice
LoincRow(choice) ==
    [LOINC_NUM |-> <<"num", choice>>, LONG_COMMON_NAME |-> choice,
     CLASS |-> <<"class", choice>>]

LoincMappedItem(obs, row) ==
    [parameter |-> obs.parameter, loinc_code |-> row.LOINC_NUM,
     loinc_long_name |-> row.LONG_COMMON_NAME, class_name |-> row.CLASS]

NoRow == [LOINC_NUM |-> NULL, LONG_COMMON_NAME |-> NULL, CLASS |-> NULL]

map_to_loinc(items) ==
    [i \in 1..Len(items) |->
        LET match == items[i].match
        IN  IF match.found /\ match.score > Threshold
            THEN LoincMappedItem(items[i], LoincRow(match.choice))
            ELSE LoincMappedItem(items[i], NoRow)]

call_map_to_loinc(w) ==
    /\ pc[w] = "idle"
    /\ \E doc \in LabDocs :
          frame' = [frame EXCEPT ![w] =
                       [NoFrame EXCEPT !.tool = "map_to_loinc",
                                       !.out = [kind |-> "loinc_doc", doc |-> doc,
                                                items |-> map_to_loinc(doc)]]]
    /\ Goto(w, "called")
    /\ UNCHANGED <<rec, store, nextId, deps, driver, exc, result, snap, completed,
                   files, model_config>>

NextLookup ==
    \E w \in SeqWorkers :
        \/ call_map_to_loinc(w)
        \/ call_returns(w)

SpecLookup == Init /\ [][NextLookup]_vars

\* ---- structuring and enrichment invocations that overlap on one document
\* The state after one document went through ingest_and_extract and
\* anonymize_txt in one agent run that has ended: tools/ingest.py:35-68 and
\* tools/anonymize.py:46-63 applied to the empty stores.
InitInterleave ==
    LET d == 1
        text == [kind |-> "text", valid |-> TRUE]
    IN  /\ rec = set_status(
                    set_anonymized_txt(
                       set_text_pointer(
                          insert_record([i \in AllIds |-> NoRecord], d, "bronze",
                                        original_key(d), filepath(1)),
                          d, text_key_of(d)),
                       d, anon_key_of(d)),
                    d, "anonymized")
        /\ store = put_anon_text(
                      put_text(
                         put_original([b \in Buckets |-> [k \in Keys |-> NoObject]],
                                      "bronze", filepath(1), d),
                         "bronze", d, text),
                      "silver", d, text)
        /\ nextId = d + 1
        /\ pc = [w \in Workers |-> "idle"]
        /\ deps = [w \in Workers |-> [doc_id |-> NoDoc]]
        /\ driver = [w \in Workers |-> "agent"]
        /\ frame = [w \in Workers |-> NoFrame]
        /\ exc = [w \in Workers |-> NoExc]
        /\ result = [w \in Workers |->
                        IF w \in SeqWorkers
                        THEN Respond([kind |-> "returned", exc |-> NoExc, payload |-> FALSE],
                                     "agent", [doc_id |-> d])
                        ELSE NoResult]
        /\ snap = [w \in Workers |-> NoSnap]
        /\ completed = [i \in AllIds |-> IF i = d THEN {"extraction", "anonymization"}
                                         ELSE {}]
        /\ files = [w \in Workers |-> NoFiles]
        /\ model_config = Imported(DefaultEnviron)

\* demo.py:21: a run is started on a document that is already in the store,
\* while another run on it may be under way
run_sync_same_doc(w) == call_run_sync(w, KnownIds) /\ UNCHANGED files

\* one driver invokes structuring, the other enrichment
NextInterleave ==
    \/ \E w \in SeqWorkers :
        \/ text_to_json(w)
        \/ parse_get_record(w)
        \/ parse_get_object(w)
        \/ parse_llm(w)
        \/ parse_except(w)
        \/ parse_put_json(w)
        \/ parse_set_json(w)
        \/ parse_set_status(w)
        \/ parse_set_bucket(w)
    \/ \E w \in Workers \ SeqWorkers :
        \/ json_to_loinc(w)
        \/ loinc_get_record(w)
        \/ loinc_get_object(w)
        \/ loinc_llm(w)
        \/ loinc_except(w)
        \/ loinc_put_json(w)
        \/ loinc_set_status(w)
    \/ \E w \in Workers :
        \/ run_sync_same_doc(w)
        \/ agent_finish(w)
        \/ propagate(w)

SpecInterleave == InitInterleave /\ [][NextInterleave]_vars

TypeOK ==
    /\ \A d \in AllIds : rec[d].status \in Statuses \cup {NULL}
    /\ nextId \in 1..(MaxIngests + 1)
    /\ \A w \in Workers : deps[w].doc_id \in {NoDoc} \cup AllIds

\* ------------------------------------------------------------------
\* Properties of the pipeline

\* C1: for every record and every sequence of stage invocations, repeated
\* ones included, the status never moves backwards in the order uploaded <
\* processed < anonymized < json_serialized < loinc_validated; the only
\* non-forward change is a transition to error.
C1_StatusNeverRegresses ==
    [][\A d \in DocIds :
         (rec[d].exists /\ rec[d].status # "error" /\ rec'[d].status # "error")
             => StatusRank(rec'[d].status) >= StatusRank(rec[d].status)]_vars

\* C2, as stated: once the status of a record is error, no later stage
\* invocation changes it to any other value.
C2_ErrorIsTerminal ==
    [][\A d \in DocIds : rec[d].status = "error" => rec'[d].status = "error"]_vars

\* the status UPDATE that ends a successful invocation of a later stage
FinalStatusUpdates == {"anonymize_set_status", "parse_set_status", "loinc_set_status"}

\* C2, amended: nothing leaves error on its own.  A record leaves error only
\* by the status UPDATE of a stage invocation that was entered while the
\* record was already in error (a manual retry) and that got through its
\* backend call and its blob write.
C2_ErrorLeftOnlyBySuccessfulRetry ==
    [][\A d \in DocIds :
         (rec[d].status = "error" /\ rec'[d].status # "error")
             => \E w \in Workers :
                    /\ pc[w] \in FinalStatusUpdates
                    /\ frame[w].doc = d
                    /\ snap[w].rec[d].status = "error"]_vars

\* a record that left error by a successful retry of anonymization
C2_Witness ==
    \E d \in DocIds :
        /\ rec[d].status = "anonymized"
        /\ rec[d].error # NoError
        /\ "anonymization" \in completed[d]

\* C3: in every reachable state the error field of a record is non-null only
\* if its status is error.
C3_ErrorOnlyInErrorStatus ==
    \A d \in DocIds : (rec[d].exists /\ rec[d].error # NoError) => rec[d].status = "error"

\* the pointer field each stage sets
PointerOf(r, stage) ==
    CASE stage = "extraction" -> r.text_key
      [] stage = "anonymization" -> r.anonymized_txt
      [] stage = "structuring" -> r.lab_items

PointerStages == {"extraction", "anonymization", "structuring"}

\* C4: in every reachable state each pointer field of a record (text_key,
\* anonymized_txt, lab_items) is set if and only if the corresponding stage
\* (extraction, anonymization, structuring) has completed successfully at
\* least once for that document.
C4_PointerIffStageCompleted ==
    \A d \in DocIds : \A stage \in PointerStages :
        (rec[d].exists /\ PointerOf(rec[d], stage) # NoKey) <=> (stage \in completed[d])

\* where a worker is once the backend call of a stage has been made
AfterAnonymizeCall == {"anonymize_except", "anonymize_put",
                       "anonymize_set_anonymized_txt", "anonymize_set_status"}
AfterParseCall == {"parse_except", "parse_put_json", "parse_set_json",
                   "parse_set_status", "parse_set_bucket"}

\* C5: a stage invoked for a document whose pointer is already set is
\* skipped: it makes no model-backend call and no storage write (so a second
\* run of the pipeline for the same id writes nothing and calls no backend).
C5_StageSkippedWhenPointerSet ==
    \A w \in Workers :
        /\ pc[w] \in AfterAnonymizeCall
               => snap[w].rec[frame[w].doc].anonymized_txt = NoKey
        /\ pc[w] \in AfterParseCall
               => snap[w].rec[frame[w].doc].lab_items = NoKey

\* C6: a retry of the pipeline for a document in error status re-enters at
\* the first stage whose pointer is missing, extraction included: the
\* anonymization of a retry is never refused for a missing text pointer.
C6_RetryReentersAtFirstMissingStage ==
    \A w \in Workers :
        (/\ pc[w] = "raised"
         /\ frame[w].tool = "anonymize_txt"
         /\ frame[w].doc \in DocIds
         /\ snap[w].rec[frame[w].doc].status = "error")
            => exc[w].cls # "ValueError"

LaterTools == {"anonymize_txt", "text_to_json", "json_to_loinc"}

\* C7: whenever an anonymization, structuring or enrichment invocation ends
\* with an exception for an existing document (backend, blob read, blob
\* write or record update), the record has status error with a failure
\* message before the exception reaches the caller.
C7_ExceptionRecordsError ==
    \A w \in Workers :
        (/\ pc[w] = "raised"
         /\ frame[w].tool \in LaterTools
         /\ frame[w].doc \in DocIds
         /\ rec[frame[w].doc].exists)
            => /\ rec[frame[w].doc].status = "error"
               /\ rec[frame[w].doc].error # NoError

\* C8: no rollback.  When a stage invocation fails, every pointer field
\* that was set when it was entered and every blob stored by then (the
\* outputs of earlier successful stages) is unchanged, and of the other
\* fields of the record only status and error may differ.
C8_NoRollback ==
    \A w \in Workers :
        pc[w] = "raised"
            => /\ \A d \in DocIds :
                      snap[w].rec[d].exists
                          => /\ rec[d].exists
                             /\ rec[d].bucket = snap[w].rec[d].bucket
                             /\ rec[d].original_key = snap[w].rec[d].original_key
                             /\ \A stage \in PointerStages :
                                    PointerOf(snap[w].rec[d], stage) # NoKey
                                        => PointerOf(rec[d], stage)
                                               = PointerOf(snap[w].rec[d], stage)
               /\ \A b \in Buckets : \A k \in Keys :
                      snap[w].store[b][k] # NoObject
                          => store[b][k] = snap[w].store[b][k]

\* C9: if the model-backend call of validate_and_enrich_loinc_codes raises,
\* the record goes to status error, no enriched JSON is written, the status
\* does not become loinc_validated in that invocation, and the caller of the
\* entry point gets the original exception (raised to it by run_sync, in the
\* returned output by run_agent_with_file).
C9_EnrichmentFatalPropagation ==
    [][\A w \in Workers :
         LET d == frame[w].doc
         IN /\ pc[w] = "loinc_except"
                => /\ exc[w] = BackendError
                   /\ rec[d].status = snap[w].rec[d].status
                   /\ store = snap[w].store
                   /\ rec'[d].status = "error"
                   /\ rec'[d].error # NoError
                   /\ store' = store
                   /\ pc'[w] = "raised"
                   /\ exc'[w] = BackendError
            /\ (pc[w] = "raised" /\ frame[w].tool = "json_to_loinc"
                                 /\ exc[w] = BackendError)
                => /\ rec[d].status = "error"
                   /\ store = snap[w].store
                   /\ rec' = rec
                   /\ result'[w].kind \in {"raised", "returned"}
                   /\ result'[w].exc = BackendError]_vars

\* the API caller got the backend's exception of a failed enrichment
C9_Witness ==
    \E w \in Workers : \E d \in DocIds :
        /\ pc[w] = "idle"
        /\ result[w].kind = "returned"
        /\ result[w].exc = BackendError
        /\ result[w].payload
        /\ rec[d].status = "error"
        /\ rec[d].error = <<"LOINC validation failed", BackendError.msg>>
        /\ store["silver"][json_key_of(d)].by = "structuring"

\* C10: extract_text_with_llm never raises: for every file and every
\* combination of rasterization, backend and OCR failures the call at
\* ingest.py:57 returns a string, so control goes on to put_text.
C10_ExtractionNeverRaises ==
    [][\A w \in Workers :
         pc[w] = "ingest_extract" => pc'[w] = "ingest_put_text"]_vars

\* ------------------------------------------------------------------
\* C11: fast path. When the pipeline extracts a PDF whose text layer yields at
\* least 10 characters, the extraction performed by ingest makes zero
\* model-backend calls and zero OCR calls and returns the embedded text.
C11_FastPath ==
    \A w \in Workers :
        (pc[w] = "ingest_put_text" /\ frame[w].ext.layer)
            => /\ frame[w].ext.llm = 0
               /\ frame[w].ext.ocr = 0
               /\ frame[w].ext.text = <<[src |-> "layer"]>>
\* every attempt of the call got the answer o from the backend
AllAttempts(outs, o) == \A k \in DOMAIN outs : outs[k] = o

\* C12: anonymization retry exhaustion. If every attempt of
\* anonymize_text_with_llm gets a response the validity classifier rejects,
\* the call returns the last attempt's text without raising; the handler then
\* stores that text as the anonymized blob and, when it completes, the record
\* has status anonymized and points at it.
C12_AnonymizationRetryExhaustion ==
    [][\A w \in Workers :
         LET d == frame[w].doc
         IN /\ (/\ pc[w] = "anonymize_llm"
                /\ pc'[w] # "anonymize_llm"
                /\ AllAttempts(frame'[w].call.outs, "invalid"))
                   => /\ pc'[w] = "anonymize_put"
                      /\ ~frame'[w].call.res.raised
                      /\ frame'[w].call.res.from = max_retries
                      /\ frame'[w].out = [kind |-> "text", valid |-> FALSE]
            /\ (/\ pc[w] = "anonymize_put"
                /\ ~frame[w].out.valid
                /\ frame[w].out.kind = "text"
                /\ pc'[w] # "anonymize_put")
                   => \/ pc'[w] = "raised" /\ exc'[w] = StorageError
                      \/ /\ pc'[w] = "anonymize_set_anonymized_txt"
                         /\ store'["silver"][anon_key_of(d)] =
                                [by |-> "anonymization", text |-> Bytes(frame[w].out)]
            /\ (/\ pc[w] \in {"anonymize_set_anonymized_txt", "anonymize_set_status"}
                /\ ~frame[w].out.valid
                /\ pc'[w] # pc[w])
                   => /\ pc'[w] \in {"anonymize_set_status", "agent"}
                      /\ rec'[d].anonymized_txt = anon_key_of(d)
                      /\ (pc'[w] = "agent" => rec'[d].status = "anonymized")
                      /\ HasObject(store', "silver", anon_key_of(d))
      ]_vars

\* all three responses were rejected and the call has returned the third
C12_Witness ==
    \E w \in Workers :
        /\ pc[w] = "anonymize_put"
        /\ AllAttempts(frame[w].call.outs, "invalid")
        /\ frame[w].call.res.calls = max_retries
        /\ frame[w].out = [kind |-> "text", valid |-> FALSE]
\* C13: anonymization propagates a backend failure. If the model-backend call
\* raises on every attempt, anonymize_text_with_llm raises, and
\* anonymize_and_store_by_doc_id sets status error, writes no anonymized blob
\* and does not set anonymized_txt (it stays as it was when the handler was
\* entered: unset, for a document not anonymized before).
C13_AnonymizationBackendFailure ==
    [][\A w \in Workers :
         LET d == frame[w].doc
         IN /\ (/\ pc[w] = "anonymize_llm"
                /\ pc'[w] # "anonymize_llm"
                /\ \A k \in DOMAIN frame'[w].call.outs :
                       frame'[w].call.outs[k] \in {"raise", "json_error"})
                   => /\ frame'[w].call.res.raised
                      /\ frame'[w].call.res.calls = max_retries
                      /\ pc'[w] = "anonymize_except"
                      /\ exc'[w] = frame'[w].call.res.exc
            /\ (pc[w] = "anonymize_except" /\ pc'[w] # "anonymize_except")
                   => /\ pc'[w] = "raised"
                      /\ rec'[d].status = "error"
                      /\ store' = snap[w].store
                      /\ rec'[d].anonymized_txt = snap[w].rec[d].anonymized_txt
                      /\ (~("anonymization" \in completed[d])
                             => rec'[d].anonymized_txt = NoKey)
      ]_vars

\* the backend raised on all three attempts of a first anonymization and the
\* handler has recorded the error and raised
C13_Witness ==
    \E w \in Workers :
        /\ pc[w] = "raised"
        /\ frame[w].tool = "anonymize_txt"
        /\ exc[w] = ExceptionOf("Error processing with LLM after attempts")
        /\ rec[frame[w].doc].status = "error"
        /\ rec[frame[w].doc].anonymized_txt = NoKey
        /\ ~HasObject(store, "silver", anon_key_of(frame[w].doc))
\* C14: structuring retry exhaustion. If every attempt of
\* text_to_json_with_llm yields a parsed result that fails the validity check,
\* the call returns the last parsed object without raising.
C14_StructuringRetryExhaustion ==
    [][\A w \in Workers :
         (/\ pc[w] = "parse_llm"
          /\ pc'[w] # "parse_llm"
          /\ AllAttempts(frame'[w].call.outs, "invalid"))
             => /\ pc'[w] = "parse_put_json"
                /\ ~frame'[w].call.res.raised
                /\ frame'[w].call.res.calls = max_retries
                /\ frame'[w].call.res.from = max_retries
                /\ frame'[w].out = [kind |-> "tests", valid |-> FALSE]
      ]_vars

\* all three parsed results were rejected and the call has returned the third
C14_Witness ==
    \E w \in Workers :
        /\ pc[w] = "parse_put_json"
        /\ AllAttempts(frame[w].call.outs, "invalid")
        /\ frame[w].call.res.from = max_retries
        /\ frame[w].out = [kind |-> "tests", valid |-> FALSE]

\* the attempts of a call that produced a parsed result
ParsedAttempts(outs) == {k \in DOMAIN outs : outs[k] \in {"valid", "invalid"}}

\* the largest attempt number in a non-empty set
MostRecent(S) == CHOOSE k \in S : \A j \in S : j <= k

\* C15: structuring best-effort on exhaustion. Whenever no attempt passes
\* the validity check but at least one attempt produced a parsed result,
\* text_to_json_with_llm returns the most recently parsed result rather than
\* raising, whatever the outcome of the remaining attempts (a backend error
\* on the final attempt included).
C15_StructuringBestEffort ==
    \A w \in Workers :
        LET c == frame[w].call
        IN (/\ pc[w] \in {"parse_put_json", "parse_except"}
            /\ \A k \in DOMAIN c.outs : c.outs[k] # "valid"
            /\ ParsedAttempts(c.outs) # {})
               => /\ pc[w] = "parse_put_json"
                  /\ ~c.res.raised
                  /\ c.res.from = MostRecent(ParsedAttempts(c.outs))
\* the stage immediately before a stage in the order Extraction,
\* Anonymization, Structuring, Enrichment
Predecessor(stage) ==
    CASE stage = "anonymization" -> "extraction"
      [] stage = "structuring" -> "anonymization"
      [] stage = "enrichment" -> "structuring"

\* the pc at which a handler reads its input blob
ReadsAt(stage) ==
    CASE stage = "anonymization" -> "anonymize_get_object"
      [] stage = "structuring" -> "parse_get_object"
      [] stage = "enrichment" -> "loinc_get_object"

\* the pc of the last statement of a handler before its return
ReturnsAt(stage) ==
    CASE stage = "anonymization" -> "anonymize_set_status"
      [] stage = "structuring" -> "parse_set_bucket"
      [] stage = "enrichment" -> "loinc_set_status"

InputBucket(stage) == IF stage = "anonymization" THEN "bronze" ELSE "silver"

\* C16: stage sequencing. For every order in which the agent invokes the
\* tools, a stage completes successfully only if the immediately preceding
\* stage has already completed successfully for the same document, and the
\* blob it reads is the one written by that preceding stage.
C16_StageSequencing ==
    [][\A w \in Workers : \A stage \in Stages \ {"extraction"} :
         /\ (pc[w] = ReturnsAt(stage) /\ pc'[w] = "agent")
                => Predecessor(stage) \in completed[frame[w].doc]
         /\ (pc[w] = ReadsAt(stage) /\ pc'[w] \notin {ReadsAt(stage), "raised"})
                => store[InputBucket(stage)][frame[w].key].by = Predecessor(stage)
      ]_vars
\* the bytes of the original file ingested as document d
OriginalOf(d) == store["bronze"][original_key(d)].text

\* C17: dedup. A second ingestion of a file whose bytes are identical to an
\* already ingested file is rejected with a uniqueness violation on
\* content_hash, so no second independent record is created: no two records
\* are of files with the same bytes.
C17_Dedup ==
    \A d1, d2 \in DocIds :
        (d1 # d2 /\ rec[d1].exists /\ rec[d2].exists)
            => OriginalOf(d1) # OriginalOf(d2)

\* C18: document ids are unique tokens. For any interleaving of ingestions
\* (two that start at the same clock reading included), no ingestion
\* overwrites the stored original blob or the record of another ingestion.
C18_UniqueDocumentIds ==
    [][\A d \in DocIds :
         /\ HasObject(store, "bronze", original_key(d))
                => store'["bronze"][original_key(d)] = store["bronze"][original_key(d)]
         /\ rec[d].exists
                => /\ rec'[d].exists
                   /\ rec'[d].filename = rec[d].filename
                   /\ rec'[d].original_key = rec[d].original_key
      ]_vars
\* what each tier is for: who may have written an object of the bucket
TierWriters(bucket) ==
    IF bucket = "bronze"
    THEN {"upload", "extraction", "anonymization"}
    ELSE {"structuring", "enrichment"}

\* C19: storage tiers. After any sequence of stages, the original blob, the
\* raw extracted text and the anonymized text of a document are stored in the
\* bronze bucket and only structured/enriched JSON is stored in the silver
\* bucket.
C19_StorageTiers ==
    \A bucket \in Buckets : \A k \in Keys :
        HasObject(store, bucket, k) => store[bucket][k].by \in TierWriters(bucket)

\* C20: in every reachable state of a record, the pair (bucket, original_key)
\* locates the stored original blob: the object store holds the original
\* file under record.original_key in the bucket named by record.bucket.
C20_BucketLocatesOriginal ==
    \A d \in DocIds :
        rec[d].exists
            => /\ HasObject(store, rec[d].bucket, rec[d].original_key)
               /\ store[rec[d].bucket][rec[d].original_key].by = "upload"
\* the pointers the record of document d holds, under the names of the
\* returned dict
StoredPointers(d) ==
    [text_key |-> rec[d].text_key, anonymized_key |-> rec[d].anonymized_txt,
     json_key |-> rec[d].lab_items]

\* C21: the pipeline entry point returns the accumulated pointers. When
\* run_agent_with_file returns normally after stages have completed, the
\* returned text_key, anonymized_key and json_key equal the corresponding
\* pointers stored in the document record.
C21_ReturnedPointers ==
    [][\A w \in Workers :
         (/\ driver[w] = "api"
          /\ pc[w] \in {"agent", "raised"}
          /\ pc'[w] = "idle"
          /\ result'[w].kind = "returned")
             => LET d == deps[w].doc_id
                IN /\ result'[w].keys.text_key = StoredPointers(d).text_key
                   /\ result'[w].keys.anonymized_key = StoredPointers(d).anonymized_key
                   /\ result'[w].keys.json_key = StoredPointers(d).json_key
      ]_vars
\* C22: failure isolation between documents. When a list of documents is
\* processed, a stage-fatal failure of one document (a failure during
\* ingestion/extraction included) does not prevent the remaining documents
\* of the list from being processed, in the API driver and in the batch
\* driver: a driver leaves its list only when no file is left.
C22_FailureIsolation ==
    [][\A w \in Workers :
         (files[w] # NoFiles /\ files'[w] = NoFiles) => files[w].left = 0
      ]_vars

\* C23: configuration errors fail fast. Under an unsupported provider name,
\* or under the ollama provider with no base URL, constructing the model
\* configuration raises: the process gets no further than its start, so no
\* object is stored, no record is created and no handler (hence no backend
\* call) is entered for any document.
C23_ConfigurationFailFast ==
    LET e == model_config.environ
    IN  (e.provider \notin ModelProvider \/ (e.provider = "ollama" /\ ~e.base_url))
        => /\ \A w \in SeqWorkers : pc[w] \in {"start", "exited"}
           /\ \A b \in Buckets, k \in Keys : store[b][k] = NoObject
           /\ \A d \in AllIds : ~rec[d].exists

\* C24: documents share no in-memory state. The model configuration a tool
\* of the agent hands to its handler, which every backend call of the handler
\* uses, is the configuration the agent of that document was created with,
\* whatever set_model_config / reset_model_config calls happen in between.
C24_ConfigurationOfTheAgent ==
    \A w \in Workers :
        (frame[w].model_config # NoConfig /\ frame[w].tool # "direct")
            => frame[w].model_config = model_config.agent[w]

\* the pages of the extraction that has just returned to ingest_then_extract
ExtractedPages(w) == IF pc[w] = "ingest_put_text" THEN DOMAIN frame[w].ext.log ELSE {}
\* some model attempt made for page i was accepted
Accepted(w, i) ==
    \E k \in DOMAIN frame[w].ext.log[i].outs : frame[w].ext.log[i].outs[k] = "valid"

\* C25 (amended): extraction OCR fallback. For every page of an extraction
\* that returns: if every model attempt raised or was rejected, OCR is
\* invoked exactly once for the page and the page's text is what OCR
\* returned, or the placeholder naming the page when OCR returned the empty
\* string; OCR is not invoked for a page on which a model attempt was accepted.
C25_OcrFallback ==
    \A w \in Workers : \A i \in ExtractedPages(w) :
        LET p == frame[w].ext.log[i]
        IN  IF Accepted(w, i)
            THEN p.ocr = 0
            ELSE /\ p.ocr = 1
                 /\ frame[w].ext.text[i] =
                       IF p.ocr_out = EmptyText
                       THEN [src |-> "placeholder", page |-> i]
                       ELSE p.ocr_out

\* C25 as stated: the page's text is the OCR output whenever the model
\* attempts are exhausted.
C25_OcrOutputAlways ==
    \A w \in Workers : \A i \in ExtractedPages(w) :
        LET p == frame[w].ext.log[i]
        IN  IF Accepted(w, i)
            THEN p.ocr = 0
            ELSE p.ocr = 1 /\ frame[w].ext.text[i] = p.ocr_out

\* all max_retries attempts of a page failed, OCR ran and its text is the page's
C25_Witness ==
    \E w \in Workers : \E i \in ExtractedPages(w) :
        /\ Len(frame[w].ext.log[i].outs) = max_retries
        /\ ~Accepted(w, i)
        /\ frame[w].ext.log[i].ocr = 1
        /\ frame[w].ext.text[i] = [src |-> "ocr"]

\* C26: extraction best-effort acceptance. When the final model attempt for
\* a page returns output that the validity classifier rejects, that output
\* is the page's text.
C26_ExtractionBestEffort ==
    \A w \in Workers : \A i \in ExtractedPages(w) :
        LET p == frame[w].ext.log[i]
        IN  (Len(p.outs) = max_retries /\ p.outs[max_retries] = "invalid")
                => frame[w].ext.text[i] = [src |-> "llm", attempt |-> max_retries]

\* the retry-loop call (anonymization or structuring) that has just ended
LoopCalls ==
    {w \in Workers : frame[w].call # NoCall
                        /\ frame[w].tool \in {"anonymize_txt", "text_to_json"}}
\* the first attempt whose answer passes the validity classifier, 0 if none
FirstValid(outs) ==
    IF \E k \in DOMAIN outs : outs[k] = "valid"
    THEN CHOOSE k \in DOMAIN outs :
            outs[k] = "valid" /\ \A j \in 1..(k - 1) : outs[j] # "valid"
    ELSE 0

\* C27: accept on first pass. A retry loop returns the output of the first
\* attempt that passes the validity classifier and makes no backend call
\* after it; while no attempt has passed, attempts go on until none remains.
C27_AcceptOnFirstPass ==
    /\ \A w \in LoopCalls :
          LET c == frame[w].call
              f == FirstValid(c.outs)
          IN  IF f > 0
              THEN /\ ~c.res.raised
                   /\ c.res.value.valid
                   /\ c.res.from = f
                   /\ c.res.calls = f
              ELSE c.res.calls = max_retries
    /\ \A w \in Workers : \A i \in ExtractedPages(w) :
          LET p == frame[w].ext.log[i]
              f == FirstValid(p.outs)
          IN  IF f > 0
              THEN /\ Len(p.outs) = f
                   /\ frame[w].ext.text[i] = [src |-> "llm", attempt |-> f]
              ELSE Len(p.outs) = max_retries

\* a loop whose first attempt failed and whose second was accepted, in an
\* anonymization or structuring call and on a page
C27_Witness ==
    \/ \E w \in LoopCalls :
          /\ FirstValid(frame[w].call.outs) = 2
          /\ frame[w].call.res.calls = 2
          /\ frame[w].call.res.value.valid
    \/ \E w \in Workers : \E i \in ExtractedPages(w) :
          /\ FirstValid(frame[w].ext.log[i].outs) = 2
          /\ frame[w].ext.text[i] = [src |-> "llm", attempt |-> 2]

\* C28: bounded attempts and termination. A retry loop makes at least one
\* and at most max_retries backend calls, one per prompt it used, and then
\* has returned or raised: per page in extraction, per call in anonymization
\* and structuring. Enrichment makes exactly one backend call.
C28_BoundedAttempts ==
    /\ \A w \in LoopCalls :
          /\ frame[w].call.res.calls \in 1..max_retries
          /\ Len(frame[w].call.res.prompts) = frame[w].call.res.calls
          /\ frame[w].call.res.raised \in BOOLEAN
    /\ \A w \in Workers :
          (frame[w].call # NoCall /\ frame[w].tool = "json_to_loinc")
              => frame[w].call.res.calls = 1
    /\ \A w \in Workers : \A i \in ExtractedPages(w) :
          /\ Len(frame[w].ext.log[i].outs) \in 1..max_retries
          /\ Len(frame[w].ext.log[i].prompts) = Len(frame[w].ext.log[i].outs)
    /\ \A w \in Workers :
          pc[w] = "ingest_put_text"
              => frame[w].ext.llm <= max_retries * Len(frame[w].ext.log)

\* a loop that used all its attempts and raised, and an enrichment call
C28_Witness ==
    \/ \E w \in LoopCalls :
          frame[w].call.res.calls = max_retries /\ frame[w].call.res.raised
    \/ \E w \in Workers :
          /\ frame[w].call # NoCall
          /\ frame[w].tool = "json_to_loinc"
          /\ frame[w].call.res.calls = 1

\* C29: prompt escalation. For every max_retries N a retry loop is called
\* with, attempt k (1 <= k <= N) is made as long as no earlier attempt was
\* accepted, and it uses prompt variant min(k, NumPrompts); with N greater
\* than NumPrompts the extra attempts use the last variant.
C29_PromptEscalation ==
    \A w \in Workers :
        pc[w] = "called"
            => LET c == frame[w].call
                   N == Len(c.outs)
                   f == FirstValid(c.outs)
               IN  /\ c.res.calls = IF f > 0 THEN f ELSE N
                   /\ c.res.prompts = [k \in 1..c.res.calls |-> Min(k, NumPrompts)]

\* C30: page-ordered concatenation. The extraction result has exactly one
\* segment per page, in page order; the segment of page i is the accepted
\* model text, else the OCR text, and when the model path and OCR both fail
\* (OCR raises or reads nothing) it is the placeholder naming page i.
C30_PageOrderedConcatenation ==
    \A w \in Workers :
        pc[w] = "ingest_put_text"
            => /\ Len(frame[w].ext.text) = Len(frame[w].ext.log)
               /\ \A i \in ExtractedPages(w) :
                     LET p == frame[w].ext.log[i]
                         f == FirstValid(p.outs)
                     IN  frame[w].ext.text[i] =
                           IF f > 0 THEN [src |-> "llm", attempt |-> f]
                           ELSE IF p.ocr_out = [src |-> "ocr"] THEN [src |-> "ocr"]
                           ELSE [src |-> "placeholder", page |-> i]

\* C31: the error message stored on a record is the failure message cut to
\* its first 500 characters: the error field never has more than 500, and
\* once the handler has recorded its exception the field is the first 500
\* characters of the exception's message.
C31_ErrorTruncated ==
    /\ \A d \in DocIds : Len(rec[d].error) <= ErrorLimit
    /\ \A w \in Workers :
          pc[w] = "reraised"
              => rec[frame[w].doc].error =
                    SubSeq(exc[w].msg, 1, IF Len(exc[w].msg) < 500 THEN Len(exc[w].msg)
                                          ELSE 500)

\* a message of more than 500 characters was recorded
C31_Witness ==
    \E w \in Workers :
        /\ pc[w] = "reraised"
        /\ Len(exc[w].msg) > 500
        /\ Len(rec[frame[w].doc].error) = 500

\* the status a stage with a pointer column advances the record to
StatusOf(stage) ==
    CASE stage = "extraction" -> "processed"
      [] stage = "anonymization" -> "anonymized"
      [] stage = "structuring" -> "json_serialized"

\* C32: write ordering inside a successful stage. A pointer is set only to
\* the key of an object that is already in the object store, and a status is
\* advanced only on a record whose pointer of that stage is set by then;
\* hence after every step, the steps between the individual updates
\* included, every non-null pointer of a record refers to a stored object.
C32_WriteOrdering ==
    [][\A d \in DocIds : \A stage \in PointerStages :
         LET old == PointerOf(rec[d], stage)
             new == PointerOf(rec'[d], stage)
         IN  /\ (new # old /\ new # NoKey)
                   => \E b \in Buckets : HasObject(store, b, new)
             /\ (rec'[d].status # rec[d].status /\ rec'[d].status = StatusOf(stage))
                   => new # NoKey
             /\ new # NoKey => \E b \in Buckets : HasObject(store', b, new)
      ]_vars

\* between the pointer update and the status update of anonymization: the
\* pointer is set, its object is stored, the status is not yet advanced
C32_Witness ==
    \E w \in Workers :
        /\ pc[w] = "anonymize_set_status"
        /\ rec[frame[w].doc].anonymized_txt # NoKey
        /\ rec[frame[w].doc].status # "anonymized"
        /\ \E b \in Buckets : HasObject(store, b, rec[frame[w].doc].anonymized_txt)

\* C33: after a successful enrichment the record holds a pointer to the
\* code-enriched JSON. When validate_and_enrich_loinc_codes returns, the key
\* it returns is the record's lab_items, and the object stored under that
\* key is the enrichment output, which has replaced the structuring output.
C33_EnrichedPointer ==
    [][\A w \in Workers :
         (pc[w] = "loinc_set_status" /\ pc'[w] = "agent")
             => LET d == frame[w].doc
                    k == frame[w].key
                IN  /\ k = rec'[d].lab_items
                    /\ HasObject(store', "silver", k)
                    /\ store'["silver"][k] = [by |-> "enrichment",
                                              text |-> Bytes(frame[w].out)]
                    /\ rec'[d].status = "loinc_validated"
      ]_vars

\* enrichment has stored its output over the structuring output and is
\* about to return the key
C33_Witness ==
    \E w \in Workers :
        /\ pc[w] = "loinc_set_status"
        /\ "structuring" \in completed[frame[w].doc]
        /\ frame[w].key = rec[frame[w].doc].lab_items
        /\ store["silver"][frame[w].key].by = "enrichment"

\* C34: the structured-record validity check rejects a candidate when its
\* tests list is missing or empty, when the first item lacks parameter or
\* value, or when refusal phrasing occurs inside any field value of the first
\* item.
C34_StructuredRecordValidity ==
    \A w \in Workers :
        (pc[w] = "called" /\ frame[w].tool = "_is_valid_json_result")
            => LET c == frame[w].out.result
               IN  (\/ ~c.has_tests
                    \/ Len(c.tests) = 0
                    \/ /\ Len(c.tests) > 0
                       /\ \/ "parameter" \notin c.tests[1].has
                          \/ "value" \notin c.tests[1].has
                          \/ c.tests[1].refusal # {})
                       => ~frame[w].out.valid

\* C35: deterministic code matching accepts the best fuzzy match for a
\* parameter exactly when its similarity score is at least 80 out of 100, a
\* score of exactly 80 included; otherwise loinc_code, long name and class of
\* the item are null; the output has one item per input item, in input order.
C35_MatchThreshold ==
    \A w \in Workers :
        (pc[w] = "called" /\ frame[w].tool = "map_to_loinc")
            => LET doc == frame[w].out.doc
                   items == frame[w].out.items
               IN  /\ Len(items) = Len(doc)
                   /\ \A i \in 1..Len(doc) :
                        /\ items[i].parameter = doc[i].parameter
                        /\ IF doc[i].match.found /\ doc[i].match.score >= Threshold
                           THEN /\ items[i].loinc_long_name = doc[i].match.choice
                                /\ items[i].loinc_code # NULL
                           ELSE /\ items[i].loinc_code = NULL
                                /\ items[i].loinc_long_name = NULL
                                /\ items[i].class_name = NULL

\* what the matching does: the match is accepted exactly when its score is
\* above 80; the rest of C35 as stated
C35_MatchAboveThreshold ==
    \A w \in Workers :
        (pc[w] = "called" /\ frame[w].tool = "map_to_loinc")
            => LET doc == frame[w].out.doc
                   items == frame[w].out.items
               IN  /\ Len(items) = Len(doc)
                   /\ \A i \in 1..Len(doc) :
                        /\ items[i].parameter = doc[i].parameter
                        /\ IF doc[i].match.found /\ doc[i].match.score > Threshold
                           THEN /\ items[i].loinc_long_name = doc[i].match.choice
                                /\ items[i].loinc_code # NULL
                           ELSE /\ items[i].loinc_code = NULL
                                /\ items[i].loinc_long_name = NULL
                                /\ items[i].class_name = NULL

\* a document of two observations, the first matched with a score of exactly
\* 80, the second with a score above it
C35_Witness ==
    \E w \in Workers :
        /\ pc[w] = "called" /\ frame[w].tool = "map_to_loinc"
        /\ Len(frame[w].out.doc) = 2
        /\ frame[w].out.doc[1].match.found
        /\ frame[w].out.doc[1].match.score = Threshold
        /\ frame[w].out.doc[2].match.found
        /\ frame[w].out.doc[2].match.score > Threshold
        /\ frame[w].out.items[1].loinc_code = NULL
        /\ frame[w].out.items[2].loinc_code # NULL

\* C36: status/pointer consistency. In every reachable state of a record,
\* status in {processed, anonymized, json_serialized, loinc_validated} implies
\* text_key is set, status in {anonymized, json_serialized, loinc_validated}
\* implies anonymized_txt is set, and status in {json_serialized,
\* loinc_validated} implies lab_items is set.
C36_StatusPointerConsistency ==
    \A d \in DocIds :
        rec[d].exists
            => /\ rec[d].status \in {"processed", "anonymized", "json_serialized",
                                     "loinc_validated"}
                     => rec[d].text_key # NoKey
               /\ rec[d].status \in {"anonymized", "json_serialized", "loinc_validated"}
                     => rec[d].anonymized_txt # NoKey
               /\ rec[d].status \in {"json_serialized", "loinc_validated"}
                     => rec[d].lab_items # NoKey

\* C37: anonymization never hard-fails because of classifier rejection.
\* anonymize_text_with_llm raises only when the model-backend call raised on
\* every attempt; if any attempt returned text, even text the classifier
\* rejected, it returns text and does not raise.
C37_NoHardFailOnRejection ==
    \A w \in Workers :
        (pc[w] = "called" /\ frame[w].tool = "anonymize_text_with_llm")
            => LET outs == frame[w].call.outs
                   res == frame[w].call.res
               IN  /\ res.raised
                         => \A i \in 1..Len(outs) : outs[i] \in {"raise", "json_error"}
                   /\ (\E i \in 1..Len(outs) : outs[i] \in {"valid", "invalid"})
                         => (~res.raised /\ res.value.kind = "text")

\* C38: under any interleaving of structuring and enrichment invocations on
\* the same document id, whenever the status of the record is loinc_validated
\* the object stored under the JSON key of the document is an output of
\* enrichment, not a raw structuring output.
C38_ValidatedObjectIsEnriched ==
    \A d \in DocIds :
        (rec[d].exists /\ rec[d].status = "loinc_validated")
            => /\ HasObject(store, "silver", json_key_of(d))
               /\ store["silver"][json_key_of(d)].by = "enrichment"

====
